---- MODULE Spec2Model ----
(***************************************************************************)
(* Model of the EPUB editor core: the content cache (ContentManager), the  *)
(* search and replace engines and the archive saver (EpubSaver).           *)
(*                                                                         *)
(* Strings (archive paths, hrefs, text, member bytes) are sequences of     *)
(* fragments; the string is the concatenation of its fragments.  One       *)
(* fragment is one character for text ("a", " ", "\n") and one markup tag  *)
(* ("<p>") or one path piece ("OEBPS", "/", ".xhtml") elsewhere.           *)
(***************************************************************************)
EXTENDS Integers, Sequences, FiniteSets, TLC

VARIABLES
    files,          \* the three paths save works on: present or not, and the archive held
    book,           \* EpubBook: opf_dir and manifest, fixed by the load
    is_modified,    \* EpubBook.is_modified
    content_cache,  \* ContentManager._content_cache, a dict in insertion order
    zip_handle,     \* ContentManager._zipfile: None, or the archive it was opened on
    keep_blanks,    \* whether the markup parser keeps whitespace-only text between tags
    results,        \* the SearchResults the caller holds from the last search
    updated,        \* history: hrefs passed to update_content since load / last saved
    last,           \* history: the last operation, its arguments and what it returned
    nops            \* number of operations performed

vars == <<files, book, is_modified, content_cache, zip_handle, keep_blanks,
          results, updated, last, nops>>

\* Number of operations of one session that the model explores.
MaxOps == 3

(***************************************************************************)
(* String helpers                                                          *)
(***************************************************************************)

\* str.endswith
EndsWith(s, suffix) ==
    /\ Len(suffix) <= Len(s)
    /\ SubSeq(s, Len(s) - Len(suffix) + 1, Len(s)) = suffix

\* Python slice s[i:j] for 0 <= i, 0 <= j: out-of-range bounds are clamped.
Slice(s, i, j) ==
    LET hi == IF j > Len(s) THEN Len(s) ELSE j
    IN  IF i >= hi THEN <<>> ELSE SubSeq(s, i + 1, hi)

\* urllib.parse.unquote: a %XX escape becomes the character it encodes.
RECURSIVE unquote(_)
unquote(s) ==
    IF s = <<>> THEN <<>>
    ELSE IF Len(s) >= 3 /\ s[1] = "%" /\ s[2] = "2" /\ s[3] = "0"
         THEN <<" ">> \o unquote(SubSeq(s, 4, Len(s)))
         ELSE <<s[1]>> \o unquote(Tail(s))

\* (Path(opf_dir) / href_path).as_posix(): "." is the empty directory; the
\* segments of href_path are appended as they are.
full_path(opf_dir, item_href) ==
    IF opf_dir = <<".">> THEN unquote(item_href)
    ELSE opf_dir \o <<"/">> \o unquote(item_href)

(***************************************************************************)
(* Archives: a sequence of members in archive order                        *)
(***************************************************************************)

MIMETYPE == <<"mimetype">>
CONTAINER_XML == <<"META-INF", "/", "container.xml">>
MimetypeBytes == <<"application/epub+zip">>

ZipInfo(filename, compress_type, data) ==
    [filename |-> filename, compress_type |-> compress_type, data |-> data]

\* ZipFile.namelist membership
HasMember(zip, name) == \E i \in 1..Len(zip) : zip[i].filename = name

\* ZipFile.getinfo: NameToInfo keeps the last member of a name.
getinfo(zip, name) ==
    LET i == CHOOSE k \in 1..Len(zip) :
                 /\ zip[k].filename = name
                 /\ \A j \in (k + 1)..Len(zip) : zip[j].filename # name
    IN  zip[i]

\* ZipFile.read(name)
ReadMember(zip, name) == getinfo(zip, name).data

\* A path on disk: no file, a ZIP archive with its members, or a file that
\* is not a ZIP archive.
NoFile == [exists |-> FALSE, is_zip |-> FALSE, members |-> <<>>]
File(members) == [exists |-> TRUE, is_zip |-> TRUE, members |-> members]
NotAZip == [exists |-> TRUE, is_zip |-> FALSE, members |-> <<>>]
NoHandle == [open |-> FALSE, members |-> <<>>]

(***************************************************************************)
(* Markup of the content documents                                         *)
(***************************************************************************)

Doc1 == <<"<html>", "<body>", "<p>", "a", " ", "b", "</p>",
          "<p>", "A", "b", " ", "a", "</p>", "</body>", "</html>">>
Doc2 == <<"<html>", "<body>", "<style>", "a", "</style>",
          "<p>", "b", " ", "a", "</p>", "</body>", "</html>">>
Doc3 == <<"<html>", "<body>", "<p>", "b", "</p>", "</body>", "</html>">>
CssBytes == <<"a", " ", "b">>

\* META-INF/container.xml naming the package document at opf_path
ContainerFor(opf_path) ==
    <<"<container>", "<rootfile ">> \o opf_path \o <<"/>", "</container>">>
\* The container.xml of a book whose package document is OEBPS/content.opf
XmlBytes == ContainerFor(<<"OEBPS", "/", "content.opf">>)

XHTML == "application/xhtml+xml"
CSS == "text/css"

ManifestItem(id, href, media_type) ==
    [id |-> id, href |-> href, media_type |-> media_type]

\* A scope test that lets every media type through.
IsHtml_Any(media_type) == TRUE

\* Media types that contain "html" ("html" in item.media_type).
IsHtml(media_type) == media_type \in {XHTML, "text/html"}

\* The <item/> elements of a package document, one per manifest item
RECURSIVE ItemElements(_, _)
ItemElements(manifest, k) ==
    IF k > Len(manifest) THEN <<>>
    ELSE <<"<item ", manifest[k].id, manifest[k].media_type>> \o manifest[k].href
         \o <<"/>">> \o ItemElements(manifest, k + 1)

\* A package document with metadata, the manifest and a spine
OpfBytes(manifest) ==
    <<"<package>", "<metadata/>", "<manifest>">> \o ItemElements(manifest, 1)
    \o <<"</manifest>", "<spine/>", "</package>">>

\* A child of the metadata element: namespace prefix, local name and text
MetaChild(prefix, local, text) == [prefix |-> prefix, local |-> local, text |-> text]

\* A child of the spine element: an itemref, with or without the linear
\* attribute, or (itemref = FALSE) an element of another name
SpineChild(itemref, idref, has_linear, linear) ==
    [itemref |-> itemref, idref |-> idref, has_linear |-> has_linear, linear |-> linear]

\* The elements of a sequence, written one after the other
RECURSIVE Flatten(_, _)
Flatten(elements, k) ==
    IF k > Len(elements) THEN <<>> ELSE elements[k] \o Flatten(elements, k + 1)

MetaElement(c) == <<"<element ", c.prefix, c.local>> \o c.text \o <<"/>">>
SpineElement(c) ==
    <<IF c.itemref THEN "<itemref " ELSE "<element ", c.idref>>
    \o (IF c.has_linear THEN <<"linear=", c.linear>> ELSE <<>>) \o <<"/>">>

\* A package document whose metadata and spine have the given children
OpfWith(meta, manifest, spine) ==
    <<"<package>", "<metadata>">> \o Flatten([i \in 1..Len(meta) |-> MetaElement(meta[i])], 1)
    \o <<"</metadata>", "<manifest>">> \o ItemElements(manifest, 1)
    \o <<"</manifest>", "<spine>">> \o Flatten([i \in 1..Len(spine) |-> SpineElement(spine[i])], 1)
    \o <<"</spine>", "</package>">>

(***************************************************************************)
(* The books the session may have loaded: each passes _validate_epub.      *)
(***************************************************************************)

OEBPS == <<"OEBPS">>
InOebps(name) == OEBPS \o <<"/">> \o name

ManifestPlain ==
    << ManifestItem("ch1", <<"ch1", ".xhtml">>, XHTML),
       ManifestItem("ch2", <<"ch2", ".xhtml">>, XHTML),
       ManifestItem("css", <<"style.css">>, CSS) >>

LayoutPlain ==
    [members |-> << ZipInfo(MIMETYPE, "ZIP_STORED", MimetypeBytes),
                    ZipInfo(CONTAINER_XML, "ZIP_DEFLATED", XmlBytes),
                    ZipInfo(InOebps(<<"content.opf">>), "ZIP_DEFLATED",
                            OpfBytes(ManifestPlain)),
                    ZipInfo(InOebps(<<"ch1", ".xhtml">>), "ZIP_DEFLATED", Doc1),
                    ZipInfo(InOebps(<<"ch2", ".xhtml">>), "ZIP_DEFLATED", Doc2),
                    ZipInfo(InOebps(<<"style.css">>), "ZIP_STORED", CssBytes) >>,
     opf_dir |-> OEBPS,
     manifest |-> ManifestPlain]

\* Two members end with the href "text.xhtml".
ManifestSuffix ==
    << ManifestItem("text", <<"text", ".xhtml">>, XHTML),
       ManifestItem("context", <<"con", "text", ".xhtml">>, XHTML) >>

LayoutSuffix ==
    [members |-> << ZipInfo(MIMETYPE, "ZIP_STORED", MimetypeBytes),
                    ZipInfo(CONTAINER_XML, "ZIP_DEFLATED", XmlBytes),
                    ZipInfo(InOebps(<<"content.opf">>), "ZIP_DEFLATED",
                            OpfBytes(ManifestSuffix)),
                    ZipInfo(InOebps(<<"con", "text", ".xhtml">>), "ZIP_DEFLATED", Doc3),
                    ZipInfo(InOebps(<<"text", ".xhtml">>), "ZIP_DEFLATED", Doc1) >>,
     opf_dir |-> OEBPS,
     manifest |-> ManifestSuffix]

\* The href is percent-encoded; the package document is at the archive root.
ManifestEncoded ==
    << ManifestItem("ch1", <<"ch", "%", "2", "0", "1", ".xhtml">>, XHTML) >>

LayoutEncoded ==
    [members |-> << ZipInfo(MIMETYPE, "ZIP_STORED", MimetypeBytes),
                    ZipInfo(CONTAINER_XML, "ZIP_DEFLATED",
                            ContainerFor(<<"content.opf">>)),
                    ZipInfo(<<"content.opf">>, "ZIP_DEFLATED", OpfBytes(ManifestEncoded)),
                    ZipInfo(<<"ch", " ", "1", ".xhtml">>, "ZIP_DEFLATED", Doc1) >>,
     opf_dir |-> <<".">>,
     manifest |-> ManifestEncoded]

\* A content document named container.xml precedes META-INF/container.xml.
ManifestContainer == << ManifestItem("doc", <<"container.xml">>, XHTML) >>

LayoutContainer ==
    [members |-> << ZipInfo(MIMETYPE, "ZIP_STORED", MimetypeBytes),
                    ZipInfo(InOebps(<<"container.xml">>), "ZIP_DEFLATED", Doc3),
                    ZipInfo(CONTAINER_XML, "ZIP_DEFLATED", XmlBytes),
                    ZipInfo(InOebps(<<"content.opf">>), "ZIP_DEFLATED",
                            OpfBytes(ManifestContainer)) >>,
     opf_dir |-> OEBPS,
     manifest |-> ManifestContainer]

Layouts == {LayoutPlain, LayoutSuffix, LayoutEncoded, LayoutContainer}

\* What an earlier session may have left at the backup path of a book (the
\* model has it beside the book of LayoutContainer)
OldBackup == File(<< ZipInfo(MIMETYPE, "ZIP_STORED", MimetypeBytes),
                     ZipInfo(CONTAINER_XML, "ZIP_DEFLATED", XmlBytes) >>)

(***************************************************************************)
(* ContentManager, as functions of the manager's state                     *)
(*   cm = [cache, zip, is_modified, updates]                               *)
(* updates lists the hrefs of the update_content calls made so far.        *)
(***************************************************************************)

CacheHas(cache, href) == \E i \in 1..Len(cache) : cache[i].href = href
CacheGet(cache, href) ==
    cache[CHOOSE i \in 1..Len(cache) : cache[i].href = href].content
\* A cache whose existing entries are never overwritten (dict.setdefault).
CachePut_KeepFirst(cache, href, content) ==
    IF CacheHas(cache, href) THEN cache
    ELSE Append(cache, [href |-> href, content |-> content])

\* dict assignment: an existing key keeps its position, a new key goes last
CachePut(cache, href, content) ==
    IF CacheHas(cache, href)
    THEN [i \in 1..Len(cache) |->
            IF cache[i].href = href THEN [href |-> href, content |-> content]
            ELSE cache[i]]
    ELSE Append(cache, [href |-> href, content |-> content])

CacheKeys(cache) == [i \in 1..Len(cache) |-> cache[i].href]

CM == [cache |-> content_cache, zip |-> zip_handle,
       is_modified |-> is_modified, updates |-> <<>>]

\* ContentManager.zipfile: opens book.filepath on first use and keeps the handle.
zipfile(cm, fs) ==
    IF cm.zip.open THEN cm.zip
    ELSE [open |-> fs.original_path.exists, members |-> fs.original_path.members]

\* A get_content that caches empty content for a member it did not find.
get_content_CachesFailure(cm, fs, opf_dir, item_href) ==
    IF CacheHas(cm.cache, item_href)
    THEN [ok |-> TRUE, content |-> CacheGet(cm.cache, item_href), cm |-> cm]
    ELSE LET zf == zipfile(cm, fs)
             path == full_path(opf_dir, item_href)
             found == zf.open /\ HasMember(zf.members, path)
             content == IF found THEN ReadMember(zf.members, path) ELSE <<>>
         IN  [ok |-> found, content |-> content,
              cm |-> [cm EXCEPT !.zip = zf,
                                !.cache = CachePut(cm.cache, item_href, content)]]

\* ContentManager.get_content: [ok, content, cm]; ok = FALSE is FileNotFoundError
get_content(cm, fs, opf_dir, item_href) ==
    IF CacheHas(cm.cache, item_href)
    THEN [ok |-> TRUE, content |-> CacheGet(cm.cache, item_href), cm |-> cm]
    ELSE LET zf == zipfile(cm, fs)
             path == full_path(opf_dir, item_href)
         IN  IF zf.open /\ HasMember(zf.members, path)
             THEN [ok |-> TRUE, content |-> ReadMember(zf.members, path),
                   cm |-> [cm EXCEPT !.zip = zf,
                                     !.cache = CachePut(cm.cache, item_href,
                                                 ReadMember(zf.members, path))]]
             ELSE [ok |-> FALSE, content |-> <<>>, cm |-> [cm EXCEPT !.zip = zf]]

\* An update_content that stores the bytes and leaves the flag of the book.
update_content_Unmarked(cm, item_href, new_content) ==
    [cm EXCEPT !.cache = CachePut(cm.cache, item_href, new_content),
               !.updates = Append(cm.updates, item_href)]

\* ContentManager.update_content
update_content(cm, item_href, new_content) ==
    [cm EXCEPT !.cache = CachePut(cm.cache, item_href, new_content),
               !.is_modified = TRUE,
               !.updates = Append(cm.updates, item_href)]

(***************************************************************************)
(* EpubSaver                                                               *)
(***************************************************************************)

\* EpubSaver._write_mimetype
write_mimetype(new_zip, original_zip) ==
    Append(new_zip, ZipInfo(MIMETYPE, "ZIP_STORED", ReadMember(original_zip, MIMETYPE)))

\* The test of _write_unmodified_files: item.filename.endswith(href) for some href
MatchesModified(filename, modified_files) ==
    \E i \in 1..Len(modified_files) : EndsWith(filename, modified_files[i])

\* EpubSaver._write_unmodified_files
RECURSIVE write_unmodified_files(_, _, _, _)
write_unmodified_files(new_zip, original_zip, modified_files, k) ==
    IF k > Len(original_zip) THEN new_zip
    ELSE LET item == original_zip[k]
             copied == IF item.filename = MIMETYPE THEN new_zip
                       ELSE IF MatchesModified(item.filename, modified_files) THEN new_zip
                       ELSE Append(new_zip,
                                ZipInfo(item.filename, item.compress_type,
                                        ReadMember(original_zip, item.filename)))
         IN  write_unmodified_files(copied, original_zip, modified_files, k + 1)

\* EpubSaver._write_modified_files: the first member that ends with the href
\* gives the name and compression; with none, the href itself names the member.
RECURSIVE write_modified_files(_, _, _, _)
write_modified_files(new_zip, original_zip, cache, k) ==
    IF k > Len(cache) THEN new_zip
    ELSE LET href == cache[k].href
             found == {i \in 1..Len(original_zip) : EndsWith(original_zip[i].filename, href)}
             written ==
                 IF found # {}
                 THEN LET found_info == original_zip[CHOOSE i \in found : \A j \in found : i <= j]
                      IN  Append(new_zip, ZipInfo(found_info.filename,
                                                  found_info.compress_type, cache[k].content))
                 ELSE Append(new_zip, ZipInfo(href, "ZIP_DEFLATED", cache[k].content))
         IN  write_modified_files(written, original_zip, cache, k + 1)

\* The archive save builds in the temporary file.
TempArchive(original_zip, cache) ==
    write_modified_files(
        write_unmodified_files(write_mimetype(<<>>, original_zip), original_zip,
                               CacheKeys(cache), 1),
        original_zip, cache, 1)

\* Where an I/O error may interrupt save: nowhere, opening the original, writing the
\* temporary archive, the backup rename, the final rename.
FailPoints == {"none", "open", "write", "backup", "rename"}

\* The step at which the try block of save raises for the injected error `fail`:
\* a missing original fails the open, and the backup rename is only attempted
\* with backup set.
FailsAt(fs, backup, fail) ==
    IF ~fs.original_path.exists THEN "open"
    ELSE IF fail = "backup" /\ ~backup THEN "none"
    ELSE fail

\* A save that moves the book file over the new archive's place without
\* keeping it: the backup path is left as it was.
SaveFiles_NoBackup(fs, cache, backup, at) ==
    IF at \in {"open", "write", "backup", "rename"}
    THEN [fs EXCEPT !.temp_path = File(write_mimetype(<<>>, fs.original_path.members))]
    ELSE [fs EXCEPT !.original_path =
                       File(TempArchive(fs.original_path.members, cache))]

\* A save that moves the temporary archive onto the book path first and makes
\* the backup afterwards.
SaveFiles_RenameFirst(fs, cache, backup, at) ==
    LET built == File(TempArchive(fs.original_path.members, cache))
    IN  IF at = "open" THEN fs
        ELSE IF at = "write"
        THEN [fs EXCEPT !.temp_path = File(write_mimetype(<<>>, fs.original_path.members))]
        ELSE IF at = "rename" THEN [fs EXCEPT !.temp_path = built]
        ELSE IF at = "backup" \/ ~backup THEN [fs EXCEPT !.original_path = built]
        ELSE [fs EXCEPT !.original_path = NoFile, !.backup_path = built]

\* A save that copies the temporary archive onto the book path and leaves it
\* where it was built.
SaveFiles_Copied(fs, cache, backup, at) ==
    LET built == File(TempArchive(fs.original_path.members, cache))
        moved == IF backup THEN [fs EXCEPT !.backup_path = fs.original_path,
                                           !.original_path = NoFile]
                 ELSE fs
    IN  IF at = "open" THEN fs
        ELSE IF at = "write"
        THEN [fs EXCEPT !.temp_path = File(write_mimetype(<<>>, fs.original_path.members))]
        ELSE IF at = "backup" THEN [fs EXCEPT !.temp_path = built]
        ELSE IF at = "rename" THEN [moved EXCEPT !.temp_path = built]
        ELSE [moved EXCEPT !.temp_path = built, !.original_path = built]

\* The files after the try block of save ran up to the step `at` that raises.
SaveFiles(fs, cache, backup, at) ==
    LET temp == IF at = "open" THEN fs
                ELSE IF at = "write"
                     THEN [fs EXCEPT !.temp_path =
                              File(write_mimetype(<<>>, fs.original_path.members))]
                     ELSE [fs EXCEPT !.temp_path =
                              File(TempArchive(fs.original_path.members, cache))]
        built == at \notin {"open", "write"}
        backed == IF built /\ at # "backup" /\ backup /\ temp.original_path.exists
                  THEN [temp EXCEPT !.backup_path = temp.original_path,
                                    !.original_path = NoFile]
                  ELSE temp
        renamed == IF built /\ at \notin {"backup", "rename"}
                   THEN [backed EXCEPT !.original_path = backed.temp_path,
                                       !.temp_path = NoFile]
                   ELSE backed
    IN  renamed

\* An except clause that leaves the temporary file behind.
RemoveTemp_Forgotten(fs) == fs

\* The except clause of save: the temporary file is removed if it exists.
RemoveTemp(fs) == [fs EXCEPT !.temp_path = NoFile]

(***************************************************************************)
(* Markup: BeautifulSoup(content, "lxml"), find_all(string=True), prettify *)
(***************************************************************************)

StartTags == {"<html>", "<body>", "<p>", "<style>"}
EndTags == {"</html>", "</body>", "</p>", "</style>"}
TagName(tag) ==
    CASE tag \in {"<html>", "</html>"} -> "html"
      [] tag \in {"<body>", "</body>"} -> "body"
      [] tag \in {"<p>", "</p>"} -> "p"
      [] tag \in {"<style>", "</style>"} -> "style"
StartTag(name) == CHOOSE t \in StartTags : TagName(t) = name
EndTag(name) == CHOOSE t \in EndTags : TagName(t) = name

IsSpace(c) == c \in {" ", "\n"}
IsBlank(s) == \A i \in 1..Len(s) : IsSpace(s[i])

\* str.strip()
RECURSIVE lstrip(_)
lstrip(s) == IF s # <<>> /\ IsSpace(s[1]) THEN lstrip(Tail(s)) ELSE s
RECURSIVE rstrip(_)
rstrip(s) == IF s # <<>> /\ IsSpace(s[Len(s)]) THEN rstrip(SubSeq(s, 1, Len(s) - 1)) ELSE s
strip(s) == rstrip(lstrip(s))

TextEvent(parent, text, depth) ==
    [kind |-> "text", name |-> parent, text |-> text, depth |-> depth]
TagEvent(kind, name, depth) ==
    [kind |-> kind, name |-> name, text |-> <<>>, depth |-> depth]

\* The text run that ends at a tag becomes a text node of the innermost open
\* element; a whitespace-only run is kept only inside the root element and
\* only by a parser that keeps blanks.
FlushText(soup, stack, run, keep) ==
    IF run = <<>> THEN soup
    ELSE IF IsBlank(run) /\ (~keep \/ stack = <<>>) THEN soup
    ELSE Append(soup, TextEvent(IF stack = <<>> THEN "[document]" ELSE stack[Len(stack)],
                                run, Len(stack)))

\* BeautifulSoup(content, "lxml"): the parse tree as its sequence of start-tag,
\* text and end-tag events in document order.  The characters up to the next
\* tag join the text run in one step.  As in every loop below, the state of
\* an iteration is a value chosen from a singleton set, so that it is
\* computed once, before the iteration starts.
ParseFrom(content, k, stack, run, soup, keep) ==
    LET Step(st) ==
            LET tok == content[st.k]
                flushed == FlushText(st.soup, st.stack, st.run, keep)
            IN  IF tok \in StartTags
                THEN [k |-> st.k + 1, stack |-> Append(st.stack, TagName(tok)),
                      run |-> <<>>,
                      soup |-> Append(flushed,
                                      TagEvent("start", TagName(tok), Len(st.stack)))]
                ELSE IF tok \in EndTags
                THEN LET popped == IF st.stack = <<>> THEN st.stack
                                   ELSE SubSeq(st.stack, 1, Len(st.stack) - 1)
                     IN  [k |-> st.k + 1, stack |-> popped, run |-> <<>>,
                          soup |-> Append(flushed,
                                          TagEvent("end", TagName(tok), Len(popped)))]
                ELSE LET next == CHOOSE j \in (st.k + 1)..(Len(content) + 1) :
                                    /\ j <= Len(content)
                                          => content[j] \in StartTags \cup EndTags
                                    /\ \A i \in (st.k + 1)..(j - 1) :
                                           content[i] \notin StartTags \cup EndTags
                     IN  [st EXCEPT !.k = next,
                                    !.run = @ \o SubSeq(content, st.k, next - 1)]
        RECURSIVE Loop(_)
        Loop(st) == IF st.k > Len(content)
                    THEN FlushText(st.soup, st.stack, st.run, keep)
                    ELSE CHOOSE r \in {Loop(next) : next \in {Step(st)}} : TRUE
    IN  CHOOSE r \in {Loop(init) : init \in {[k |-> k, stack |-> stack, run |-> run, soup |-> soup]}} : TRUE

BeautifulSoup(content, keep) == ParseFrom(content, 1, <<>>, <<>>, <<>>, keep)

\* soup.find_all(string=True): the positions of the text nodes, in document order
TextPositions(soup, k) ==
    LET RECURSIVE Loop(_)
        Loop(st) == IF st.k > Len(soup) THEN st.found
                    ELSE CHOOSE r \in {Loop(next) : next \in {[k |-> st.k + 1,
                               found |-> IF soup[st.k].kind = "text"
                                         THEN Append(st.found, st.k)
                                         ELSE st.found]}} : TRUE
    IN  CHOOSE r \in {Loop(init) : init \in {[k |-> k, found |-> <<>>]}} : TRUE
find_all_strings(soup) == TextPositions(soup, 1)

\* The texts of the text nodes of a document
TextNodes(content, keep) ==
    LET soup == BeautifulSoup(content, keep)
        pos == find_all_strings(soup)
    IN  [i \in 1..Len(pos) |-> soup[pos[i]].text]

Indent(n) == [i \in 1..n |-> " "]

\* soup.prettify(): every tag and every stripped, non-empty string on a line
\* of its own, indented by one space per level of nesting.
PrettifyFrom(soup, k) ==
    LET Line(e) ==
            LET piece == CASE e.kind = "start" -> <<StartTag(e.name)>>
                           [] e.kind = "end" -> <<EndTag(e.name)>>
                           [] e.kind = "text" -> strip(e.text)
            IN  IF piece = <<>> THEN <<>> ELSE Indent(e.depth) \o piece \o <<"\n">>
        RECURSIVE Loop(_)
        Loop(st) == IF st.k > Len(soup) THEN st.out
                    ELSE CHOOSE r \in {Loop(next) : next \in
                            {[k |-> st.k + 1, out |-> st.out \o Line(soup[st.k])]}} : TRUE
    IN  CHOOSE r \in {Loop(init) : init \in {[k |-> k, out |-> <<>>]}} : TRUE
prettify(soup) == PrettifyFrom(soup, 1)

\* node.string.replace_with(new_text)
replace_with(soup, position, new_text) == [soup EXCEPT ![position].text = new_text]

(***************************************************************************)
(* Patterns: re.compile of the query under the three flags                 *)
(***************************************************************************)

\* \w
IsWordChar(c) == c \in {"a", "A", "b"}
\* A pattern compiled without re.IGNORECASE.
lower_Identity(c) == c

\* re.IGNORECASE
lower(c) == IF c = "A" THEN "a" ELSE c

\* _compile_search_pattern / the head of replace_all: ok = FALSE is ValueError.
\* Without regex the query is escaped and matches verbatim; as a regular
\* expression a query with the unbalanced "(" does not compile.
compile_search_pattern(query, case_sensitive, whole_word, regex) ==
    [ok |-> ~(regex /\ \E i \in 1..Len(query) : query[i] = "("),
     literal |-> query,
     ignorecase |-> ~case_sensitive,
     whole_word |-> whole_word]

\* A pattern that lost its \b assertions.
WordBoundary_Ignored(text, k) == TRUE

\* \b at offset k of text: a word character on exactly one side
WordBoundary(text, k) ==
    LET before == k >= 1 /\ IsWordChar(text[k])
        after == k < Len(text) /\ IsWordChar(text[k + 1])
    IN  before # after

\* pattern.match(text, i): the pattern matches at offset i
MatchAt(pattern, text, i) ==
    LET n == Len(pattern.literal)
    IN  /\ i + n <= Len(text)
        /\ \A k \in 1..n :
              IF pattern.ignorecase
              THEN lower(text[i + k]) = lower(pattern.literal[k])
              ELSE text[i + k] = pattern.literal[k]
        /\ pattern.whole_word => WordBoundary(text, i) /\ WordBoundary(text, i + n)

\* pattern.finditer(text): leftmost non-overlapping matches from offset i on
finditer(pattern, text, i) ==
    LET n == Len(pattern.literal)
        Step(st) ==
            IF MatchAt(pattern, text, st.i)
            THEN [i |-> IF n = 0 THEN st.i + 1 ELSE st.i + n,
                  found |-> Append(st.found, [start |-> st.i, end |-> st.i + n])]
            ELSE [st EXCEPT !.i = @ + 1]
        RECURSIVE Loop(_)
        Loop(st) == IF st.i + n > Len(text) THEN st.found ELSE CHOOSE r \in {Loop(next) : next \in {Step(st)}} : TRUE
    IN  CHOOSE r \in {Loop(init) : init \in {[i |-> i, found |-> <<>>]}} : TRUE

\* pattern.subn(replace, text) from offset i on: [text, n].  An empty match is
\* replaced too, and the character after it is kept.
subn(pattern, replace, text, i) ==
    LET n == Len(pattern.literal)
        Step(st) ==
            IF n > 0 /\ MatchAt(pattern, text, st.i)
            THEN [i |-> st.i + n, text |-> st.text \o replace, n |-> st.n + 1]
            ELSE IF n = 0 /\ MatchAt(pattern, text, st.i)
            THEN [i |-> st.i + 1,
                  text |-> st.text \o replace \o Slice(text, st.i, st.i + 1),
                  n |-> st.n + 1]
            ELSE [i |-> st.i + 1, text |-> st.text \o Slice(text, st.i, st.i + 1),
                  n |-> st.n]
        RECURSIVE Loop(_)
        Loop(st) == IF st.i > Len(text) THEN [text |-> st.text, n |-> st.n]
                    ELSE CHOOSE r \in {Loop(next) : next \in {Step(st)}} : TRUE
    IN  CHOOSE r \in {Loop(init) : init \in {[i |-> i, text |-> <<>>, n |-> 0]}} : TRUE

(***************************************************************************)
(* SearchEngine and ReplaceEngine, as functions of the manager's state     *)
(***************************************************************************)

SearchResult(item_href, node_index, m, text) ==
    [item_href |-> item_href, node_index |-> node_index,
     match_start |-> m.start, match_end |-> m.end,
     match_text |-> Slice(text, m.start, m.end), context |-> text]

\* A loop over the text nodes that yields the results of later nodes first.
SearchNodes_LastFirst(item_href, soup, positions, k, pattern) ==
    LET Found(j) ==
            LET text == soup[positions[j]].text
                matches == finditer(pattern, text, 0)
            IN  [m \in 1..Len(matches) |-> SearchResult(item_href, j - 1, matches[m], text)]
        RECURSIVE Loop(_)
        Loop(st) == IF st.k > Len(positions) THEN st.results
                    ELSE CHOOSE r \in {Loop(next) : next \in
                            {[k |-> st.k + 1, results |-> Found(st.k) \o st.results]}} : TRUE
    IN  CHOOSE r \in {Loop(init) : init \in {[k |-> k, results |-> <<>>]}} : TRUE

\* The loop of _search_in_file over the text nodes k, k+1, ... (node_index k-1)
SearchNodes(item_href, soup, positions, k, pattern) ==
    LET Found(j) ==
            LET text == soup[positions[j]].text
                matches == finditer(pattern, text, 0)
            IN  [m \in 1..Len(matches) |-> SearchResult(item_href, j - 1, matches[m], text)]
        RECURSIVE Loop(_)
        Loop(st) == IF st.k > Len(positions) THEN st.results
                    ELSE CHOOSE r \in {Loop(next) : next \in
                            {[k |-> st.k + 1, results |-> st.results \o Found(st.k)]}} : TRUE
    IN  CHOOSE r \in {Loop(init) : init \in {[k |-> k, results |-> <<>>]}} : TRUE

\* A _search_in_file that leaves the re-serialised document in the cache.
search_in_file_Prettified(cm, fs, opf_dir, item, pattern, keep) ==
    LET got == get_content(cm, fs, opf_dir, item.href)
    IN  IF ~got.ok THEN [cm |-> got.cm, results |-> <<>>]
        ELSE LET soup == BeautifulSoup(got.content, keep)
             IN  [cm |-> [got.cm EXCEPT !.cache = CachePut(got.cm.cache, item.href,
                                                          prettify(soup))],
                  results |-> SearchNodes(item.href, soup, find_all_strings(soup), 1, pattern)]

\* SearchEngine._search_in_file: [cm, results]
search_in_file(cm, fs, opf_dir, item, pattern, keep) ==
    LET got == get_content(cm, fs, opf_dir, item.href)
    IN  IF ~got.ok THEN [cm |-> got.cm, results |-> <<>>]
        ELSE LET soup == BeautifulSoup(got.content, keep)
             IN  [cm |-> got.cm,
                  results |-> SearchNodes(item.href, soup, find_all_strings(soup), 1, pattern)]

\* A search that ends at the first item whose content cannot be fetched.
search_StopsAtFailure(cm, fs, opf_dir, manifest, k, pattern, keep) ==
    LET Step(st) ==
            IF ~IsHtml(manifest[st.k].media_type) THEN [st EXCEPT !.k = @ + 1]
            ELSE IF ~get_content(st.cm, fs, opf_dir, manifest[st.k].href).ok
            THEN [st EXCEPT !.k = Len(manifest) + 1]
            ELSE CHOOSE next \in
                    {[k |-> st.k + 1, cm |-> first.cm,
                      results |-> st.results \o first.results] :
                     first \in {search_in_file(st.cm, fs, opf_dir, manifest[st.k],
                                               pattern, keep)}} : TRUE
        RECURSIVE Loop(_)
        Loop(st) == IF st.k > Len(manifest) THEN [cm |-> st.cm, results |-> st.results]
                    ELSE CHOOSE r \in {Loop(next) : next \in {Step(st)}} : TRUE
    IN  CHOOSE r \in {Loop(init) : init \in {[k |-> k, cm |-> cm, results |-> <<>>]}} : TRUE

\* SearchEngine.search, all results consumed: [cm, results]
search(cm, fs, opf_dir, manifest, k, pattern, keep) ==
    LET Step(st) ==
            IF ~IsHtml(manifest[st.k].media_type) THEN [st EXCEPT !.k = @ + 1]
            ELSE CHOOSE next \in
                    {[k |-> st.k + 1, cm |-> first.cm,
                      results |-> st.results \o first.results] :
                     first \in {search_in_file(st.cm, fs, opf_dir, manifest[st.k],
                                               pattern, keep)}} : TRUE
        RECURSIVE Loop(_)
        Loop(st) == IF st.k > Len(manifest) THEN [cm |-> st.cm, results |-> st.results]
                    ELSE CHOOSE r \in {Loop(next) : next \in {Step(st)}} : TRUE
    IN  CHOOSE r \in {Loop(init) : init \in {[k |-> k, cm |-> cm, results |-> <<>>]}} : TRUE

\* The loop of _replace_in_file over the text nodes: [soup, n]
ReplaceNodes(soup, positions, k, pattern, replace) ==
    LET Step(st) ==
            LET node == st.soup[positions[st.k]]
                sub == subn(pattern, replace, node.text, 0)
            IN  IF node.name \in {"style", "script"} THEN [st EXCEPT !.k = @ + 1]
                ELSE [k |-> st.k + 1,
                      soup |-> IF sub.n > 0
                               THEN replace_with(st.soup, positions[st.k], sub.text)
                               ELSE st.soup,
                      n |-> st.n + sub.n]
        RECURSIVE Loop(_)
        Loop(st) == IF st.k > Len(positions) THEN [soup |-> st.soup, n |-> st.n]
                    ELSE CHOOSE r \in {Loop(next) : next \in {Step(st)}} : TRUE
    IN  CHOOSE r \in {Loop(init) : init \in {[k |-> k, soup |-> soup, n |-> 0]}} : TRUE

\* A _replace_in_file that writes every fetched item back.
ShouldWriteBack_Always(file_replacements) == file_replacements >= 0

\* The condition of _replace_in_file under which the item is written back
ShouldWriteBack(file_replacements) == file_replacements > 0

\* ReplaceEngine._replace_in_file: [cm, n]
replace_in_file(cm, fs, opf_dir, item, pattern, replace, keep) ==
    LET got == get_content(cm, fs, opf_dir, item.href)
    IN  IF ~got.ok THEN [cm |-> got.cm, n |-> 0]
        ELSE LET soup == BeautifulSoup(got.content, keep)
                 done == ReplaceNodes(soup, find_all_strings(soup), 1, pattern, replace)
             IN  [cm |-> IF ShouldWriteBack(done.n)
                         THEN update_content(got.cm, item.href, prettify(done.soup))
                         ELSE got.cm,
                  n |-> done.n]

\* The loop of ReplaceEngine.replace_all over the manifest: [cm, n]
replace_all(cm, fs, opf_dir, manifest, k, pattern, replace, keep) ==
    LET Step(st) ==
            IF ~IsHtml(manifest[st.k].media_type) THEN [st EXCEPT !.k = @ + 1]
            ELSE CHOOSE next \in
                    {[k |-> st.k + 1, cm |-> first.cm, n |-> st.n + first.n] :
                     first \in {replace_in_file(st.cm, fs, opf_dir, manifest[st.k],
                                                pattern, replace, keep)}} : TRUE
        RECURSIVE Loop(_)
        Loop(st) == IF st.k > Len(manifest) THEN [cm |-> st.cm, n |-> st.n]
                    ELSE CHOOSE r \in {Loop(next) : next \in {Step(st)}} : TRUE
    IN  CHOOSE r \in {Loop(init) : init \in {[k |-> k, cm |-> cm, n |-> 0]}} : TRUE

\* A batch that runs its rules last to first.
RuleOrder_Reversed(operations) ==
    [i \in 1..Len(operations) |-> operations[Len(operations) + 1 - i]]

\* The order in which batch_replace_all takes the rules: as given
RuleOrder(operations) == operations

\* The loop of ReplaceEngine.batch_replace_all over the rules k, k+1, ...:
\* [cm, n, ok]; ok = FALSE is the ValueError of a rule whose pattern does not
\* compile, raised out of the loop after the rules before it have run.
batch_rules(cm, fs, opf_dir, manifest, rules, k, flags, keep) ==
    LET Step(st) ==
            LET pattern == compile_search_pattern(rules[st.k].find, flags.case_sensitive,
                                                  flags.whole_word, flags.regex)
            IN  IF ~pattern.ok THEN [st EXCEPT !.ok = FALSE]
                ELSE CHOOSE next \in
                        {[k |-> st.k + 1, cm |-> first.cm, n |-> st.n + first.n,
                          ok |-> TRUE] :
                         first \in {replace_all(st.cm, fs, opf_dir, manifest, 1, pattern,
                                                rules[st.k].replace, keep)}} : TRUE
        RECURSIVE Loop(_)
        Loop(st) == IF st.k > Len(rules) \/ ~st.ok
                    THEN [cm |-> st.cm, n |-> st.n, ok |-> st.ok]
                    ELSE CHOOSE r \in {Loop(next) : next \in {Step(st)}} : TRUE
    IN  CHOOSE r \in {Loop(init) : init \in {[k |-> k, cm |-> cm, n |-> 0, ok |-> TRUE]}} : TRUE

\* ReplaceEngine.batch_replace_all
batch_replace_all(cm, fs, opf_dir, manifest, operations, flags, keep) ==
    batch_rules(cm, fs, opf_dir, manifest, RuleOrder(operations), 1, flags, keep)

\* A replace_single that trusts the coordinate without re-verifying it.
StillMatches_Unchecked(original_text, search_result) == TRUE

\* The re-verification of replace_single: the match is still at its offsets
StillMatches(original_text, search_result) ==
    Slice(original_text, search_result.match_start, search_result.match_end)
        = search_result.match_text

\* ReplaceEngine.replace_single: [cm, n, stage]; stage names the exit taken
replace_single(cm, fs, opf_dir, search_result, replace_text, keep) ==
    LET got == get_content(cm, fs, opf_dir, search_result.item_href)
    IN  IF ~got.ok THEN [cm |-> got.cm, n |-> 0, stage |-> "missing"]
        ELSE LET soup == BeautifulSoup(got.content, keep)
                 text_nodes == find_all_strings(soup)
             IN  IF search_result.node_index >= Len(text_nodes)
                 THEN [cm |-> got.cm, n |-> 0, stage |-> "index"]
                 ELSE LET position == text_nodes[search_result.node_index + 1]
                          original_text == soup[position].text
                      IN  IF ~StillMatches(original_text, search_result)
                          THEN [cm |-> got.cm, n |-> 0, stage |-> "mismatch"]
                          ELSE LET new_text ==
                                       Slice(original_text, 0, search_result.match_start)
                                       \o replace_text
                                       \o Slice(original_text, search_result.match_end,
                                                Len(original_text))
                                   new_html == prettify(replace_with(soup, position, new_text))
                               IN  [cm |-> update_content(got.cm, search_result.item_href,
                                                          new_html),
                                    n |-> 1, stage |-> "replaced"]

(***************************************************************************)
(* EpubLoader                                                              *)
(***************************************************************************)

\* A byte outside ASCII
NonAscii == "0xE9"
IsAscii(data) == \A i \in 1..Len(data) : data[i] # NonAscii

\* A validation that accepts a compressed mimetype member.
MimetypeIsStored_Unchecked(zip) == TRUE

\* file_list[0].compress_type == zipfile.ZIP_STORED
MimetypeIsStored(zip) == zip[1].compress_type = "ZIP_STORED"

\* EpubLoader._validate_epub: the rule whose check raises InvalidEpubFileError,
\* in the order of the checks, or "none"
validate_error(zip) ==
    IF ~HasMember(zip, MIMETYPE) THEN "mimetype_missing"
    ELSE IF ~IsAscii(ReadMember(zip, MIMETYPE)) THEN "mimetype_encoding"
    ELSE IF strip(ReadMember(zip, MIMETYPE)) # MimetypeBytes THEN "mimetype_content"
    ELSE IF zip[1].filename # MIMETYPE THEN "mimetype_not_first"
    ELSE IF ~MimetypeIsStored(zip) THEN "mimetype_compressed"
    ELSE IF ~HasMember(zip, CONTAINER_XML) THEN "container_missing"
    ELSE "none"

\* EpubLoader._validate_epub passes
validate_epub(zip) == validate_error(zip) = "none"

\* etree.fromstring accepts the bytes: one root element, opened and closed
WellFormed(data, open, close) ==
    Len(data) >= 2 /\ data[1] = open /\ data[Len(data)] = close

\* The value of an attribute: the fragments from offset k up to the end of the tag
RECURSIVE Until(_, _)
Until(data, k) ==
    IF k > Len(data) \/ data[k] = "/>" THEN <<>>
    ELSE <<data[k]>> \o Until(data, k + 1)

\* EpubLoader._get_opf_path: [stage, opf_path]; a stage other than "none" raises
\* InvalidEpubFileError
get_opf_path(zip) ==
    LET container_xml == ReadMember(zip, CONTAINER_XML)
        rootfiles == {k \in 1..Len(container_xml) : container_xml[k] = "<rootfile "}
        k == CHOOSE i \in rootfiles : \A j \in rootfiles : i <= j
    IN  IF ~WellFormed(container_xml, "<container>", "</container>")
        THEN [stage |-> "container_malformed", opf_path |-> <<>>]
        ELSE IF rootfiles = {} THEN [stage |-> "rootfile_missing", opf_path |-> <<>>]
        ELSE IF Until(container_xml, k + 1) = <<>>
        THEN [stage |-> "full_path_missing", opf_path |-> <<>>]
        ELSE [stage |-> "none", opf_path |-> Until(container_xml, k + 1)]

\* EpubLoader._parse_manifest: the <item/> elements from offset k on
RECURSIVE parse_manifest(_, _)
parse_manifest(data, k) ==
    IF k > Len(data) THEN <<>>
    ELSE IF data[k] = "<item " /\ k + 2 <= Len(data)
         THEN <<ManifestItem(data[k + 1], Until(data, k + 3), data[k + 2])>>
              \o parse_manifest(data, k + 1)
         ELSE parse_manifest(data, k + 1)

\* Path(opf_path).parent
parent(path) ==
    LET slashes == {i \in 1..Len(path) : path[i] = "/"}
        cut == CHOOSE i \in slashes : \A j \in slashes : j <= i
    IN  IF slashes = {} THEN <<".">> ELSE SubSeq(path, 1, cut - 1)

\* The content of the first element of a document that `open` starts and
\* `close` ends; an element written as one empty tag has none.
Content(data, open, close) ==
    LET opens == {i \in 1..Len(data) : data[i] = open}
        first == CHOOSE i \in opens : \A j \in opens : i <= j
        closes == {i \in 1..Len(data) : data[i] = close /\ i > first}
        end == CHOOSE i \in closes : \A j \in closes : i <= j
    IN  IF opens = {} THEN <<>>
        ELSE IF closes = {} THEN <<>>
        ELSE SubSeq(data, first + 1, end - 1)

\* element.get(name, default) of the element that starts at offset k, whose
\* attribute, if it has it, is written after its first fragment
get(data, k, name, default) ==
    IF k + 3 <= Len(data) /\ data[k + 2] = name THEN data[k + 3] ELSE default

SpineItem(idref, linear) == [idref |-> idref, linear |-> linear]

\* A spine in which every itemref but linear="no" is linear.
IsLinear_NotNo(value) == value # "no"

\* itemref.get('linear', 'yes') == 'yes'
IsLinear(value) == value = "yes"

\* EpubLoader._parse_spine: one SpineItem per itemref among the children
\* `data` of the spine element, from offset k on
parse_spine(data, k) ==
    LET Step(st) ==
            IF data[st.k] = "<itemref "
            THEN [k |-> st.k + 1,
                  spine |-> Append(st.spine,
                                   SpineItem(data[st.k + 1],
                                             IsLinear(get(data, st.k, "linear=", "yes"))))]
            ELSE [st EXCEPT !.k = @ + 1]
        RECURSIVE Loop(_)
        Loop(st) == IF st.k > Len(data) THEN st.spine
                    ELSE CHOOSE r \in {Loop(next) : next \in {Step(st)}} : TRUE
    IN  CHOOSE r \in {Loop(init) : init \in {[k |-> k, spine |-> <<>>]}} : TRUE

\* A catch-all that records the children without text as well.
HasText_Always(text) == TRUE

\* if item.text:
HasText(text) == text # <<>>

\* metadata.all_metadata[tag_name].append(item.text), the key created with
\* its first value: a dict as the sequence of its keys with their values
AppendValue(all_metadata, tag_name, text) ==
    IF \E i \in 1..Len(all_metadata) : all_metadata[i].tag = tag_name
    THEN [i \in 1..Len(all_metadata) |->
            IF all_metadata[i].tag = tag_name
            THEN [tag |-> tag_name, values |-> Append(all_metadata[i].values, text)]
            ELSE all_metadata[i]]
    ELSE Append(all_metadata, [tag |-> tag_name, values |-> <<text>>])

\* EpubLoader._parse_metadata, the catch-all mapping: the children `data` of
\* the metadata element from offset k on, each with its local name
\* (etree.QName(item.tag).localname) and its text
parse_metadata(data, k) ==
    LET Step(st) ==
            LET tag_name == data[st.k + 2]
                text == Until(data, st.k + 3)
            IN  IF data[st.k] = "<element " /\ HasText(text)
                THEN [k |-> st.k + 1,
                      all_metadata |-> AppendValue(st.all_metadata, tag_name, text)]
                ELSE [st EXCEPT !.k = @ + 1]
        RECURSIVE Loop(_)
        Loop(st) == IF st.k > Len(data) THEN st.all_metadata
                    ELSE CHOOSE r \in {Loop(next) : next \in {Step(st)}} : TRUE
    IN  CHOOSE r \in {Loop(init) : init \in {[k |-> k, all_metadata |-> <<>>]}} : TRUE

NoBook == [opf_dir |-> <<>>, manifest |-> <<>>, spine |-> <<>>, all_metadata |-> <<>>]

\* A _parse_opf that reports an absent package document as an invalid
\* container, like the malformed one.
parse_opf_Translated(zip, opf_path) ==
    LET opf_content == ReadMember(zip, opf_path)
        has(tag) == \E i \in 1..Len(opf_content) : opf_content[i] = tag
    IN  IF ~HasMember(zip, opf_path)
        THEN [error |-> "InvalidEpubFileError", stage |-> "opf_missing", book |-> NoBook]
        ELSE IF ~WellFormed(opf_content, "<package>", "</package>")
        THEN [error |-> "InvalidEpubFileError", stage |-> "opf_malformed", book |-> NoBook]
        ELSE IF ~(/\ has("<metadata/>") \/ has("<metadata>")
                  /\ has("<manifest>")
                  /\ has("<spine/>") \/ has("<spine>"))
        THEN [error |-> "InvalidEpubFileError", stage |-> "opf_elements", book |-> NoBook]
        ELSE [error |-> "none", stage |-> "none",
              book |-> [opf_dir |-> parent(opf_path),
                        manifest |-> parse_manifest(opf_content, 1),
                        spine |-> parse_spine(Content(opf_content, "<spine>", "</spine>"), 1),
                        all_metadata |->
                            parse_metadata(Content(opf_content, "<metadata>",
                                                   "</metadata>"), 1)]]

\* EpubLoader._parse_opf: [error, stage, book]; self.epub.read(self.opf_path)
\* stands outside the try block, so its KeyError leaves load as it is.
parse_opf(zip, opf_path) ==
    LET opf_content == ReadMember(zip, opf_path)
        has(tag) == \E i \in 1..Len(opf_content) : opf_content[i] = tag
    IN  IF ~HasMember(zip, opf_path)
        THEN [error |-> "KeyError", stage |-> "opf_missing", book |-> NoBook]
        ELSE IF ~WellFormed(opf_content, "<package>", "</package>")
        THEN [error |-> "InvalidEpubFileError", stage |-> "opf_malformed", book |-> NoBook]
        ELSE IF ~(/\ has("<metadata/>") \/ has("<metadata>")
                  /\ has("<manifest>")
                  /\ has("<spine/>") \/ has("<spine>"))
        THEN [error |-> "InvalidEpubFileError", stage |-> "opf_elements", book |-> NoBook]
        ELSE [error |-> "none", stage |-> "none",
              book |-> [opf_dir |-> parent(opf_path),
                        manifest |-> parse_manifest(opf_content, 1),
                        spine |-> parse_spine(Content(opf_content, "<spine>", "</spine>"), 1),
                        all_metadata |->
                            parse_metadata(Content(opf_content, "<metadata>",
                                                   "</metadata>"), 1)]]

\* A load that does not catch zipfile.BadZipFile.
open_error_Uncaught(file) ==
    IF ~file.exists THEN [error |-> "FileNotFoundError", stage |-> "not_found"]
    ELSE IF ~file.is_zip THEN [error |-> "BadZipFile", stage |-> "not_a_zip"]
    ELSE [error |-> "none", stage |-> "none"]

\* The head of EpubLoader.load: the is_file test, then zipfile.ZipFile
open_error(file) ==
    IF ~file.exists THEN [error |-> "FileNotFoundError", stage |-> "not_found"]
    ELSE IF ~file.is_zip THEN [error |-> "InvalidEpubFileError", stage |-> "not_a_zip"]
    ELSE [error |-> "none", stage |-> "none"]

\* EpubLoader.load: [ok, error, stage, book]; error is the exception raised,
\* stage the step that raised it.
load(file) ==
    LET failed(error, stage) ==
            [ok |-> FALSE, error |-> error, stage |-> stage, book |-> NoBook]
        opened == open_error(file)
        zip == file.members
        located == get_opf_path(zip)
        parsed == parse_opf(zip, located.opf_path)
    IN  IF opened.error # "none" THEN failed(opened.error, opened.stage)
        ELSE IF validate_error(zip) # "none"
        THEN failed("InvalidEpubFileError", validate_error(zip))
        ELSE IF located.stage # "none" THEN failed("InvalidEpubFileError", located.stage)
        ELSE IF parsed.error # "none" THEN failed(parsed.error, parsed.stage)
        ELSE [ok |-> TRUE, error |-> "none", stage |-> "none", book |-> parsed.book]

(***************************************************************************)
(* State machine                                                           *)
(***************************************************************************)

Hrefs == {book.manifest[i].href : i \in 1..Len(book.manifest)}

NoArg == [query |-> <<>>, replace |-> <<>>, index |-> 0,
          backup |-> FALSE, fail |-> "none", after_search |-> FALSE,
          href |-> <<>>, content |-> <<>>, batch |-> <<>>, error |-> "none"]
Op(op, ret, updates, stage, arg) ==
    [op |-> op, ret |-> ret, updates |-> updates, stage |-> stage, arg |-> arg]
NoOp == Op("load", 0, <<>>, "none", NoArg)

Range(seq) == {seq[i] : i \in 1..Len(seq)}

Init ==
    /\ \E layout \in Layouts, old \in BOOLEAN :
          /\ old => layout = LayoutContainer
          /\ files = [original_path |-> File(layout.members),
                      temp_path |-> NoFile,
                      backup_path |-> IF old THEN OldBackup ELSE NoFile]
          /\ book = load(File(layout.members)).book
    /\ is_modified = FALSE
    /\ content_cache = <<>>
    /\ zip_handle = NoHandle
    /\ keep_blanks \in BOOLEAN
    /\ results = <<>>
    /\ updated = {}
    /\ last = NoOp
    /\ nops = 0

(***************************************************************************)
(* What a caller observes                                                  *)
(***************************************************************************)

\* What content_manager.get_content(href) returns now: [ok, content]
CurrentContent(href) ==
    LET got == get_content(CM, files, book.opf_dir, href)
    IN  [ok |-> got.ok, content |-> got.content]

\* The texts of the current text nodes of an item
NodesOf(href) == TextNodes(CurrentContent(href).content, keep_blanks)

\* The bytes a caller may pass to update_content.
SampleBytes == {Doc3, Doc2}

\* content_manager.get_content(href) called by the presentation layer
GetContent(href) ==
    /\ nops < MaxOps
    /\ \E r \in {get_content(CM, files, book.opf_dir, href)} :
           /\ content_cache' = r.cm.cache
           /\ zip_handle' = r.cm.zip
           /\ last' = Op("get_content", IF r.ok THEN 1 ELSE 0, <<>>, "none",
                         [NoArg EXCEPT !.href = href])
    /\ nops' = nops + 1
    /\ UNCHANGED <<files, book, is_modified, keep_blanks, results, updated>>

\* content_manager.update_content(href, new_content)
UpdateContent(href, new_content) ==
    /\ nops < MaxOps
    /\ \E cm \in {update_content(CM, href, new_content)} :
           /\ content_cache' = cm.cache
           /\ is_modified' = cm.is_modified
           /\ last' = Op("update_content", 0, cm.updates, "none",
                         [NoArg EXCEPT !.href = href, !.content = new_content])
    /\ updated' = updated \cup {href}
    /\ nops' = nops + 1
    /\ UNCHANGED <<files, book, zip_handle, keep_blanks, results>>

\* A save that rewrites the archive whether or not the book is modified.
SaveIsNoOp_Never == FALSE

\* The early return of save: nothing to do for an unmodified book
SaveIsNoOp == ~is_modified

\* EpubSaver.save(backup), interrupted by the I/O error `fail` or not at all
Save(backup, fail) ==
    /\ nops < MaxOps
    /\ LET at == FailsAt(files, backup, fail)
           arg == [NoArg EXCEPT !.backup = backup, !.fail = at]
       IN  IF SaveIsNoOp
           THEN /\ last' = Op("save", 0, <<>>, "unmodified",
                              [NoArg EXCEPT !.backup = backup])
                /\ UNCHANGED <<files, is_modified, content_cache, updated>>
           ELSE IF at # "none"
           THEN /\ files' = RemoveTemp(SaveFiles(files, content_cache, backup, at))
                /\ last' = Op("save", -1, <<>>, at, arg)
                /\ UNCHANGED <<is_modified, content_cache, updated>>
           ELSE /\ files' = SaveFiles(files, content_cache, backup, at)
                /\ is_modified' = FALSE
                /\ content_cache' = <<>>
                /\ updated' = {}
                /\ last' = Op("save", 1, <<>>, "saved", arg)
    /\ nops' = nops + 1
    /\ UNCHANGED <<book, zip_handle, keep_blanks, results>>

\* The queries and flags a caller passes to search and replace_all.
Query(find, case_sensitive, whole_word, regex) ==
    [find |-> find, case_sensitive |-> case_sensitive,
     whole_word |-> whole_word, regex |-> regex]
Queries == { Query(<<"a">>, TRUE, FALSE, FALSE),
             Query(<<"a">>, FALSE, TRUE, FALSE),
             Query(<<"a", "b">>, FALSE, FALSE, TRUE),
             Query(<<"(">>, TRUE, FALSE, TRUE) }
Replacements == {<<"b">>, <<>>}

Compile(q) == compile_search_pattern(q.find, q.case_sensitive, q.whole_word, q.regex)

\* list(search_engine.search(...)): the caller keeps the results
Search(q) ==
    /\ nops < MaxOps
    /\ IF ~Compile(q).ok
       THEN /\ last' = Op("search", -1, <<>>, "invalid", [NoArg EXCEPT !.query = q])
            /\ UNCHANGED <<content_cache, zip_handle, results>>
       ELSE \E r \in {search(CM, files, book.opf_dir, book.manifest, 1, Compile(q), keep_blanks)} :
                /\ content_cache' = r.cm.cache
                /\ zip_handle' = r.cm.zip
                /\ results' = r.results
                /\ last' = Op("search", Len(r.results), <<>>, "none",
                              [NoArg EXCEPT !.query = q])
    /\ nops' = nops + 1
    /\ UNCHANGED <<files, book, is_modified, keep_blanks, updated>>

\* replace_engine.replace_all(find, replace, flags)
ReplaceAll(q, replace) ==
    /\ nops < MaxOps
    /\ IF ~Compile(q).ok
       THEN /\ last' = Op("replace_all", -1, <<>>, "invalid",
                          [NoArg EXCEPT !.query = q, !.replace = replace])
            /\ UNCHANGED <<content_cache, zip_handle, is_modified, updated>>
       ELSE \E r \in {replace_all(CM, files, book.opf_dir, book.manifest, 1,
                                 Compile(q), replace, keep_blanks)} :
                /\ content_cache' = r.cm.cache
                /\ zip_handle' = r.cm.zip
                /\ is_modified' = r.cm.is_modified
                /\ updated' = updated \cup Range(r.cm.updates)
                /\ last' = Op("replace_all", r.n, r.cm.updates, "none",
                              [NoArg EXCEPT !.query = q, !.replace = replace])
    /\ nops' = nops + 1
    /\ UNCHANGED <<files, book, keep_blanks, results>>

\* The batches a caller passes to batch_replace_all: rules and shared flags.
Rule(find, replace) == [find |-> find, replace |-> replace]
Batch(operations, case_sensitive, whole_word, regex) ==
    [operations |-> operations, case_sensitive |-> case_sensitive,
     whole_word |-> whole_word, regex |-> regex]
Batches == { Batch(<<Rule(<<"a">>, <<"b">>), Rule(<<"b">>, <<>>)>>, TRUE, FALSE, FALSE),
             Batch(<<Rule(<<"a">>, <<"b">>), Rule(<<"(">>, <<"b">>)>>, TRUE, FALSE, TRUE),
             Batch(<<Rule(<<"(">>, <<"b">>), Rule(<<"a">>, <<"b">>)>>, TRUE, FALSE, TRUE) }

\* replace_engine.batch_replace_all(operations, flags): the rules before an
\* invalid pattern have run when the ValueError is raised.
BatchReplaceAll(b) ==
    /\ nops < MaxOps
    /\ \E r \in {batch_replace_all(CM, files, book.opf_dir, book.manifest,
                                    b.operations, b, keep_blanks)} :
           /\ content_cache' = r.cm.cache
           /\ zip_handle' = r.cm.zip
           /\ is_modified' = r.cm.is_modified
           /\ updated' = updated \cup Range(r.cm.updates)
           /\ last' = Op("batch_replace_all", IF r.ok THEN r.n ELSE -1, r.cm.updates,
                         IF r.ok THEN "none" ELSE "invalid",
                         [NoArg EXCEPT !.batch = b])
    /\ nops' = nops + 1
    /\ UNCHANGED <<files, book, keep_blanks, results>>

\* replace_engine.replace_single(results[i], replace_text)
ReplaceSingle(i, replace_text) ==
    /\ nops < MaxOps
    /\ i \in 1..Len(results)
    /\ \E r \in {replace_single(CM, files, book.opf_dir, results[i], replace_text, keep_blanks)} :
           /\ content_cache' = r.cm.cache
           /\ zip_handle' = r.cm.zip
           /\ is_modified' = r.cm.is_modified
           /\ updated' = updated \cup Range(r.cm.updates)
           /\ last' = Op("replace_single", r.n, r.cm.updates, r.stage,
                         [NoArg EXCEPT !.index = i, !.replace = replace_text,
                                       !.after_search = (last.op = "search")])
    /\ nops' = nops + 1
    /\ UNCHANGED <<files, book, keep_blanks, results>>

Next ==
    \/ \E href \in Hrefs : GetContent(href)
    \/ \E href \in Hrefs, b \in SampleBytes : UpdateContent(href, b)
    \/ \E backup \in BOOLEAN, fail \in FailPoints : Save(backup, fail)
    \/ \E q \in Queries : Search(q)
    \/ \E q \in Queries, replace \in Replacements : ReplaceAll(q, replace)
    \/ \E b \in Batches : BatchReplaceAll(b)
    \/ \E i \in 1..Len(results), replace_text \in Replacements : ReplaceSingle(i, replace_text)

Spec == Init /\ [][Next]_vars

(***************************************************************************)
(* Properties                                                              *)
(***************************************************************************)

\* C1: when save fails while the temporary archive is being built (opening the
\* original or writing the members), it raises, the temporary file is gone,
\* the book file is as before and the backup file is neither created nor changed.
C1_BuildFailureLeavesFiles ==
    [][(last'.op = "save" /\ is_modified /\ files.original_path.exists
        /\ last'.arg.fail \in {"open", "write"})
       => /\ last'.ret = -1
          /\ ~files'.temp_path.exists
          /\ files'.original_path = files.original_path
          /\ files'.backup_path = files.backup_path]_vars

C1_Witness ==
    /\ last.op = "save" /\ last.ret = -1 /\ last.stage = "write"
    /\ files.original_path.exists /\ is_modified

\* C2: whenever save ends in failure, the book file still exists and holds the
\* bytes it held before save was called.
C2_FailedSaveKeepsBookFile ==
    [][(last'.op = "save" /\ last'.ret = -1 /\ files.original_path.exists)
       => /\ files'.original_path.exists
          /\ files'.original_path = files.original_path]_vars

\* C3: after a successful save with exactly one item modified, every other
\* member of the original archive is in the saved archive under its path with
\* the same bytes.
C3_OtherMembersPreserved ==
    [][(last'.op = "save" /\ last'.ret = 1 /\ Cardinality(updated) = 1)
       => \A h \in updated :
            \A i \in 1..Len(files.original_path.members) :
               LET name == files.original_path.members[i].filename
               IN  name # full_path(book.opf_dir, h)
                   => /\ HasMember(files'.original_path.members, name)
                      /\ ReadMember(files'.original_path.members, name)
                           = ReadMember(files.original_path.members, name)]_vars

\* C4: after a successful save, for every href passed to update_content the
\* saved archive's member at the path get_content resolves the href to holds
\* the bytes last passed to update_content.
C4_EditsAreSavedAtResolvedPath ==
    [][(last'.op = "save" /\ last'.ret = 1)
       => \A h \in updated :
            /\ HasMember(files'.original_path.members, full_path(book.opf_dir, h))
            /\ ReadMember(files'.original_path.members, full_path(book.opf_dir, h))
                 = CacheGet(content_cache, h)]_vars

\* C5: save on an unmodified book changes no file, creates no temporary or
\* backup file and leaves the cache and is_modified as they were.
C5_UnmodifiedSaveIsNoOp ==
    [][(last'.op = "save" /\ ~is_modified)
       => /\ files' = files
          /\ content_cache' = content_cache
          /\ is_modified' = is_modified]_vars

C5_Witness ==
    /\ last.op = "save" /\ last.stage = "unmodified" /\ last.arg.backup
    /\ content_cache # <<>> /\ ~files.backup_path.exists

\* C6: after a successful save the book file has mimetype as its first member,
\* stored, with the original bytes, and contains META-INF/container.xml, so
\* that it passes _validate_epub.
C6_SavedFileIsValid ==
    (last.op = "save" /\ last.ret = 1)
    => /\ files.original_path.exists
       /\ Len(files.original_path.members) > 0
       /\ files.original_path.members[1] = ZipInfo(MIMETYPE, "ZIP_STORED", MimetypeBytes)
       /\ HasMember(files.original_path.members, CONTAINER_XML)
       /\ validate_epub(files.original_path.members)

\* The coordinate of a search result no longer fits the current document:
\* node_index is out of range or the text at the offsets is not match_text.
IsStale(sr) ==
    LET nodes == NodesOf(sr.item_href)
    IN  \/ sr.node_index >= Len(nodes)
        \/ Slice(nodes[sr.node_index + 1], sr.match_start, sr.match_end) # sr.match_text

\* C7: replace_single with a stale coordinate returns 0, calls update_content
\* zero times and leaves is_modified and every item's content unchanged.
C7_StaleCoordinateIsNoOp ==
    [][(last'.op = "replace_single"
        /\ CurrentContent(results[last'.arg.index].item_href).ok
        /\ IsStale(results[last'.arg.index]))
       => /\ last'.ret = 0
          /\ last'.updates = <<>>
          /\ is_modified' = is_modified
          /\ \A h \in Hrefs : CurrentContent(h)' = CurrentContent(h)]_vars

C7_Witness ==
    /\ last.op = "replace_single" /\ last.stage = "mismatch" /\ last.ret = 0
    /\ is_modified

\* C8: replace_single with a result of the search just made returns 1, makes
\* the node's text context[:match_start] + t + context[match_end:], changes no
\* other text node and no other item, calls update_content once for the item
\* and sets is_modified.
C8_FreshResultIsSpliced ==
    [][(last.op = "search" /\ last'.op = "replace_single")
       => \A i \in 1..Len(results), h \in Hrefs :
            (last'.arg.index = i /\ results[i].item_href = h)
            => LET sr == results[i]
                   new_text == Slice(sr.context, 0, sr.match_start) \o last'.arg.replace
                               \o Slice(sr.context, sr.match_end, Len(sr.context))
               IN  /\ last'.ret = 1
                   /\ last'.updates = <<h>>
                   /\ is_modified'
                   /\ Len(NodesOf(h)') = Len(NodesOf(h))
                   /\ \A k \in 1..Len(NodesOf(h)) :
                         NodesOf(h)'[k] = IF k = sr.node_index + 1 THEN new_text
                                          ELSE NodesOf(h)[k]
                   /\ \A other \in Hrefs \ {h} :
                         CurrentContent(other)' = CurrentContent(other)]_vars

\* C9: when search returned r1 and r2 in different text nodes of one item and
\* replace_single(r1) returned 1, replace_single(r2) returns 1 as well.
C9_SecondResultStillReplaceable ==
    [][(/\ last.op = "replace_single" /\ last.arg.after_search /\ last.ret = 1
        /\ last'.op = "replace_single"
        /\ results[last.arg.index].item_href = results[last'.arg.index].item_href
        /\ results[last.arg.index].node_index # results[last'.arg.index].node_index)
       => last'.ret = 1]_vars

\* The matches replace_all is to substitute in a document: the non-overlapping
\* matches in its text nodes outside style and script.
RECURSIVE CountMatches(_, _, _, _)
CountMatches(soup, positions, k, pattern) ==
    IF k > Len(positions) THEN 0
    ELSE (IF soup[positions[k]].name \in {"style", "script"} THEN 0
          ELSE Len(finditer(pattern, soup[positions[k]].text, 0)))
         + CountMatches(soup, positions, k + 1, pattern)

MatchCount(href, pattern) ==
    LET now == CurrentContent(href)
        soup == BeautifulSoup(now.content, keep_blanks)
    IN  IF now.ok THEN CountMatches(soup, find_all_strings(soup), 1, pattern) ELSE 0

\* The number of matches per manifest item: 0 for an item out of scope.
ItemMatches(pattern) ==
    [k \in 1..Len(book.manifest) |->
        IF IsHtml(book.manifest[k].media_type)
        THEN MatchCount(book.manifest[k].href, pattern) ELSE 0]

RECURSIVE SumMatches(_, _)
SumMatches(counts, k) ==
    IF k > Len(counts) THEN 0 ELSE counts[k] + SumMatches(counts, k + 1)

Occurrences(seq, x) == Cardinality({i \in 1..Len(seq) : seq[i] = x})

\* C10: replace_all returns the number of matches substituted over all in-scope
\* items, calls update_content once for each item with a substitution and not
\* at all for an item without, whose content stays; without any substitution
\* is_modified stays as it was.
C10_ReplaceAllCountsAndWrites ==
    [][(last'.op = "replace_all" /\ last'.ret >= 0)
       => \A counts \in {ItemMatches(Compile(last'.arg.query))} :
              /\ last'.ret = SumMatches(counts, 1)
              /\ \A i \in 1..Len(book.manifest) :
                    LET item == book.manifest[i]
                    IN  /\ Occurrences(last'.updates, item.href)
                             = IF counts[i] > 0 THEN 1 ELSE 0
                        /\ counts[i] = 0
                             => CurrentContent(item.href)' = CurrentContent(item.href)
              /\ SumMatches(counts, 1) = 0 => is_modified' = is_modified]_vars

C10_Witness ==
    /\ last.op = "replace_all" /\ last.ret > 1
    /\ Len(last.updates) = 1
    /\ Cardinality({i \in 1..Len(book.manifest) : IsHtml(book.manifest[i].media_type)}) > 1

\* The two rules of a batch run as two replace_all calls, the second on the
\* manager state the first leaves: [cm, n]
Sequentially(b) ==
    LET flags(find) == compile_search_pattern(find, b.case_sensitive, b.whole_word, b.regex)
        one == replace_all(CM, files, book.opf_dir, book.manifest, 1,
                           flags(b.operations[1].find), b.operations[1].replace, keep_blanks)
        two == replace_all(one.cm, files, book.opf_dir, book.manifest, 1,
                           flags(b.operations[2].find), b.operations[2].replace, keep_blanks)
    IN  [cm |-> two.cm, n |-> one.n + two.n]

\* C11: batch_replace_all leaves every item with the content that one
\* replace_all per rule, in the given order and each on the output of the one
\* before, leaves, and returns the sum of their counts.
C11_BatchIsSequenceOfReplaceAll ==
    [][(last'.op = "batch_replace_all" /\ last'.ret >= 0)
       => \A seq \in {Sequentially(last'.arg.batch)} :
             /\ last'.ret = seq.n
             /\ is_modified' = seq.cm.is_modified
             /\ \A h \in Hrefs :
                   \A got \in {get_content(seq.cm, files, book.opf_dir, h)} :
                      CurrentContent(h)' = [ok |-> got.ok, content |-> got.content]]_vars

\* A batch whose second rule replaced text the first rule had put there.
C11_Witness ==
    /\ last.op = "batch_replace_all" /\ last.ret > 0
    /\ \E h \in Hrefs : Occurrences(last.updates, h) = 2

\* C12: a search, replace_all or batch_replace_all that fails with the
\* invalid-pattern error has made no update_content call and has left every
\* item's content and is_modified as they were.
C12_InvalidPatternMutatesNothing ==
    [][(last'.op \in {"search", "replace_all", "batch_replace_all"}
        /\ last'.stage = "invalid")
       => /\ last'.updates = <<>>
          /\ is_modified' = is_modified
          /\ \A h \in Hrefs : CurrentContent(h)' = CurrentContent(h)]_vars

(***************************************************************************)
(* Matching: search on a book whose first document has one paragraph       *)
(* holding any text, and whose second has two paragraphs of "b"            *)
(***************************************************************************)

\* Length of the texts searched.
MaxLen == 5

TextAlphabet == {"a", "A", "b", " "}
Texts == UNION {[1..n -> TextAlphabet] : n \in 0..MaxLen}

Doc4 == <<"<html>", "<body>", "<p>", "b", "</p>",
          "<p>", "b", " ", "b", "</p>", "</body>", "</html>">>

ManifestText ==
    << ManifestItem("ch1", <<"ch1", ".xhtml">>, XHTML),
       ManifestItem("ch2", <<"ch2", ".xhtml">>, XHTML) >>

\* A book whose first content document has one paragraph holding `text`
TextLayout(text) ==
    [members |-> << ZipInfo(MIMETYPE, "ZIP_STORED", MimetypeBytes),
                    ZipInfo(CONTAINER_XML, "ZIP_DEFLATED", XmlBytes),
                    ZipInfo(InOebps(<<"content.opf">>), "ZIP_DEFLATED",
                            OpfBytes(ManifestText)),
                    ZipInfo(InOebps(<<"ch1", ".xhtml">>), "ZIP_DEFLATED",
                            <<"<html>", "<body>", "<p>">> \o text
                            \o <<"</p>", "</body>", "</html>">>),
                    ZipInfo(InOebps(<<"ch2", ".xhtml">>), "ZIP_DEFLATED", Doc4) >>,
     opf_dir |-> OEBPS,
     manifest |-> ManifestText]

\* Literal queries under the case and whole-word flags, none of which occurs
\* in the second document, and two regular expressions: the empty one, which
\* matches the empty string everywhere, and "b"
TextQueries == { Query(<<>>, TRUE, FALSE, TRUE),
                 Query(<<"b">>, TRUE, FALSE, TRUE),
                 Query(<<"a">>, TRUE, FALSE, FALSE),
                 Query(<<"a">>, FALSE, FALSE, FALSE),
                 Query(<<"a", "a">>, FALSE, FALSE, FALSE),
                 Query(<<"a">>, FALSE, TRUE, FALSE),
                 Query(<<"a", "b">>, TRUE, TRUE, FALSE),
                 Query(<<" ">>, TRUE, TRUE, FALSE),
                 Query(<<"a", " ", "a">>, TRUE, TRUE, FALSE) }

InitText ==
    /\ \E text \in Texts :
          /\ files = [original_path |-> File(TextLayout(text).members),
                      temp_path |-> NoFile, backup_path |-> NoFile]
          /\ book = load(File(TextLayout(text).members)).book
    /\ is_modified = FALSE
    /\ content_cache = <<>>
    /\ zip_handle = NoHandle
    /\ keep_blanks \in BOOLEAN
    /\ results = <<>>
    /\ updated = {}
    /\ last = NoOp
    /\ nops = 0

\* One search of the freshly loaded book
NextText == \E q \in TextQueries : nops = 0 /\ Search(q)

SpecText == InitText /\ [][NextText]_vars

\* The query stands at offset i of the text, letter case ignored or not.
OccursAt(text, query, i, ignorecase) ==
    /\ i + Len(query) <= Len(text)
    /\ \A k \in 1..Len(query) :
          \/ text[i + k] = query[k]
          \/ ignorecase /\ {text[i + k], query[k]} \subseteq {"a", "A"}

\* No word character stands right before offset i or right after offset i + n.
WordDelimited(text, i, n) ==
    /\ ~(i >= 1 /\ IsWordChar(text[i]))
    /\ ~(i + n < Len(text) /\ IsWordChar(text[i + n + 1]))

\* The results of the last search that lie in text node j (node_index j - 1)
ResultsIn(j) == {k \in 1..Len(results) : results[k].node_index = j - 1}

\* The offsets of text node j at which the last search reported a match
ReportedAt(j, i) == {k \in ResultsIn(j) : results[k].match_start = i}

\* An occurrence at offset i of node j lies across a match reported before it.
OverlapsEarlier(j, i) ==
    \E k \in ResultsIn(j) : results[k].match_start < i /\ i < results[k].match_end

\* Every result of the last search is an occurrence of the query, with the
\* document's own characters as match_text.
ResultsAreOccurrences(q, nodes) ==
    \A k \in 1..Len(results) :
       LET r == results[k]
           text == nodes[r.node_index + 1]
       IN  /\ r.node_index < Len(nodes)
           /\ r.context = text
           /\ OccursAt(text, q.find, r.match_start, ~q.case_sensitive)
           /\ r.match_end = r.match_start + Len(q.find)
           /\ r.match_text = Slice(text, r.match_start, r.match_end)
           /\ q.whole_word => WordDelimited(text, r.match_start, Len(q.find))

\* Every occurrence the flags admit has exactly one result.
OccurrencesAreResults(q, nodes) ==
    \A j \in 1..Len(nodes) : \A i \in 0..Len(nodes[j]) :
       (/\ OccursAt(nodes[j], q.find, i, ~q.case_sensitive)
        /\ q.whole_word => WordDelimited(nodes[j], i, Len(q.find)))
       => Cardinality(ReportedAt(j, i)) = 1

\* Every occurrence the flags admit has exactly one result, unless it lies
\* across a match reported before it.
NonOverlappingAreResults(q, nodes) ==
    \A j \in 1..Len(nodes) : \A i \in 0..Len(nodes[j]) :
       (/\ OccursAt(nodes[j], q.find, i, ~q.case_sensitive)
        /\ q.whole_word => WordDelimited(nodes[j], i, Len(q.find))
        /\ ~OverlapsEarlier(j, i))
       => Cardinality(ReportedAt(j, i)) = 1

\* The last operation was a literal search, with or without whole_word.
LiteralSearch(whole_word) ==
    /\ last.op = "search" /\ last.ret >= 0
    /\ ~last.arg.query.regex /\ last.arg.query.whole_word = whole_word

\* The text nodes of the first document of the book
TextOfBook == NodesOf(book.manifest[1].href)

\* C13 as stated: with regex off and whole_word on, search reports an
\* occurrence only if no word character stands right before or right after
\* it, and every such occurrence yields exactly one result.
C13_WholeWordAsStated ==
    LiteralSearch(TRUE)
    => /\ ResultsAreOccurrences(last.arg.query, TextOfBook)
       /\ OccurrencesAreResults(last.arg.query, TextOfBook)

\* The query begins and ends with a word character.
WordEdged(query) ==
    query # <<>> /\ IsWordChar(query[1]) /\ IsWordChar(query[Len(query)])

\* C13 amended: for a query that begins and ends with a word character, search
\* with regex off and whole_word on reports an occurrence only if no word
\* character stands right before or right after it, and every such occurrence
\* that does not lie across an earlier match yields exactly one result.
C13_WholeWordOfWords ==
    (LiteralSearch(TRUE) /\ WordEdged(last.arg.query.find))
    => /\ ResultsAreOccurrences(last.arg.query, TextOfBook)
       /\ NonOverlappingAreResults(last.arg.query, TextOfBook)

\* The query "a" is found as a word and passed over inside the word "Ab".
C13_Witness ==
    /\ LiteralSearch(TRUE) /\ last.arg.query.find = <<"a">>
    /\ TextOfBook = << <<"A", "b", " ", "a">> >>
    /\ last.ret = 1 /\ results[1].match_start = 3

\* C14 as stated: with regex off, search with case_sensitive on reports only
\* occurrences equal to the query character for character, with it off every
\* occurrence equal to the query ignoring letter case; match_text carries the
\* document's casing.
C14_CaseAsStated ==
    LiteralSearch(FALSE)
    => /\ ResultsAreOccurrences(last.arg.query, TextOfBook)
       /\ OccurrencesAreResults(last.arg.query, TextOfBook)

\* C14 amended: as stated, where "every occurrence" is every occurrence that
\* does not lie across an earlier reported match.
C14_CaseOfNonOverlapping ==
    LiteralSearch(FALSE)
    => /\ ResultsAreOccurrences(last.arg.query, TextOfBook)
       /\ NonOverlappingAreResults(last.arg.query, TextOfBook)

\* A case-insensitive search reported "A" with the document's casing, and a
\* case-sensitive one passed over it.
C14_Witness ==
    /\ LiteralSearch(FALSE) /\ last.arg.query.find = <<"a">>
    /\ TextOfBook = << <<"A", " ", "a">> >>
    /\ \/ (~last.arg.query.case_sensitive /\ last.ret = 2
             /\ results[1].match_text = <<"A">>)
       \/ (last.arg.query.case_sensitive /\ last.ret = 1
             /\ results[1].match_text = <<"a">>)

(***************************************************************************)
(* Loading: EpubLoader.load on any file, then reads of the loaded book     *)
(***************************************************************************)

\* An item above the package document's directory: href "../cover.xhtml".
ManifestParent ==
    << ManifestItem("cover", <<"..", "/", "cover", ".xhtml">>, XHTML),
       ManifestItem("ch1", <<"ch1", ".xhtml">>, XHTML) >>

LayoutParent ==
    [members |-> << ZipInfo(MIMETYPE, "ZIP_STORED", MimetypeBytes),
                    ZipInfo(CONTAINER_XML, "ZIP_DEFLATED", XmlBytes),
                    ZipInfo(InOebps(<<"content.opf">>), "ZIP_DEFLATED",
                            OpfBytes(ManifestParent)),
                    ZipInfo(<<"cover", ".xhtml">>, "ZIP_DEFLATED", Doc3),
                    ZipInfo(InOebps(<<"ch1", ".xhtml">>), "ZIP_DEFLATED", Doc1) >>,
     opf_dir |-> OEBPS,
     manifest |-> ManifestParent]

Mimetype(compress_type, data) == ZipInfo(MIMETYPE, compress_type, data)
Container == ZipInfo(CONTAINER_XML, "ZIP_DEFLATED", XmlBytes)
Opf == ZipInfo(InOebps(<<"content.opf">>), "ZIP_DEFLATED", OpfBytes(ManifestContainer))
Stored == Mimetype("ZIP_STORED", MimetypeBytes)

\* Archives that break a rule of the container, singly and together, or whose
\* container.xml or package document cannot be used; the second is valid.
BrokenArchives ==
    { <<>>,
      << Mimetype("ZIP_STORED", MimetypeBytes \o <<"\n">>), Container, Opf >>,
      << Container >>,
      << Container, Stored >>,
      << Mimetype("ZIP_DEFLATED", MimetypeBytes), Container >>,
      << Container, Mimetype("ZIP_DEFLATED", MimetypeBytes) >>,
      << Mimetype("ZIP_STORED", <<"text/plain">>), Container >>,
      << Mimetype("ZIP_STORED", <<NonAscii>>), Container >>,
      << Stored >>,
      << Stored, Opf >>,
      << Stored, Container >>,
      << Stored, ZipInfo(CONTAINER_XML, "ZIP_DEFLATED", <<"<container>">>), Opf >>,
      << Stored, ZipInfo(CONTAINER_XML, "ZIP_DEFLATED",
                         <<"<container>", "</container>">>), Opf >>,
      << Stored, ZipInfo(CONTAINER_XML, "ZIP_DEFLATED", ContainerFor(<<>>)), Opf >>,
      << Stored, Container,
         ZipInfo(InOebps(<<"content.opf">>), "ZIP_DEFLATED", <<"<package>">>) >>,
      << Stored, Container,
         ZipInfo(InOebps(<<"content.opf">>), "ZIP_DEFLATED",
                 <<"<package>", "<metadata/>", "<manifest>", "</manifest>", "</package>">>) >> }

\* The longest spine and the longest metadata element of the package
\* documents given to the loader
MaxChildren == 2

SeqsUpTo(S, n) == UNION {[1..m -> S] : m \in 0..n}

\* The children a spine may have: itemrefs without the linear attribute and
\* with it, for several values, and an element that is no itemref.
SpineChildren ==
    {SpineChild(TRUE, idref, FALSE, "yes") : idref \in {"ch1", "ch2"}}
    \cup {SpineChild(TRUE, "ch1", TRUE, value) : value \in {"yes", "no", "Yes", "true", ""}}
    \cup {SpineChild(TRUE, "ch2", TRUE, "no"), SpineChild(FALSE, "ch1", TRUE, "no")}
Spines == SeqsUpTo(SpineChildren, MaxChildren)

\* The children a metadata element may have: two local names, one of them in
\* two namespaces, without text and with it.
MetaChildren ==
    {MetaChild(q[1], q[2], text) :
        q \in {<<"dc", "title">>, <<"opf", "title">>, <<"dc", "creator">>},
        text \in {<<>>, <<"a">>, <<" ">>}}
Metas == SeqsUpTo(MetaChildren, MaxChildren)

\* A valid archive around a package document with the given metadata and spine
OpfArchive(meta, spine) ==
    << Stored, Container,
       ZipInfo(InOebps(<<"content.opf">>), "ZIP_DEFLATED",
               OpfWith(meta, ManifestContainer, spine)),
       ZipInfo(InOebps(<<"container.xml">>), "ZIP_DEFLATED", Doc3) >>
SpineFiles == [spine \in Spines |-> File(OpfArchive(<<>>, spine))]
MetaFiles == [meta \in Metas |-> File(OpfArchive(meta, <<>>))]

\* What may be at the path given to the loader
LoadFiles ==
    {NoFile, NotAZip}
    \cup {File(layout.members) : layout \in Layouts \cup {LayoutParent}}
    \cup {File(zip) : zip \in BrokenArchives}
    \cup {SpineFiles[spine] : spine \in Spines}
    \cup {MetaFiles[meta] : meta \in Metas}

NotLoaded == Op("start", 0, <<>>, "none", NoArg)

InitLoad ==
    /\ \E file \in LoadFiles :
          files = [original_path |-> file, temp_path |-> NoFile, backup_path |-> NoFile]
    /\ book = NoBook
    /\ is_modified = FALSE
    /\ content_cache = <<>>
    /\ zip_handle = NoHandle
    /\ keep_blanks \in BOOLEAN
    /\ results = <<>>
    /\ updated = {}
    /\ last = NotLoaded
    /\ nops = 0

\* EpubLoader(path).load()
Load ==
    /\ last = NotLoaded
    /\ \E r \in {load(files.original_path)} :
           /\ book' = r.book
           /\ last' = Op("load", IF r.ok THEN 1 ELSE -1, <<>>, r.stage,
                         [NoArg EXCEPT !.error = r.error])
    /\ nops' = nops + 1
    /\ UNCHANGED <<files, is_modified, content_cache, zip_handle, keep_blanks,
                   results, updated>>

NextLoad ==
    \/ Load
    \/ \E href \in Hrefs : GetContent(href)

SpecLoad == InitLoad /\ [][NextLoad]_vars

\* The segments of a path: the runs of fragments between the "/"
RECURSIVE Segments(_, _, _)
Segments(path, k, run) ==
    IF k > Len(path) THEN <<run>>
    ELSE IF path[k] = "/" THEN <<run>> \o Segments(path, k + 1, <<>>)
    ELSE Segments(path, k + 1, Append(run, path[k]))

\* The segments with "." dropped and ".." taking back the segment before it
RECURSIVE Resolve(_, _, _)
Resolve(segments, k, out) ==
    IF k > Len(segments) THEN out
    ELSE IF segments[k] \in {<<>>, <<".">>} THEN Resolve(segments, k + 1, out)
    ELSE IF segments[k] = <<"..">>
         THEN Resolve(segments, k + 1,
                      IF out = <<>> THEN out ELSE SubSeq(out, 1, Len(out) - 1))
         ELSE Resolve(segments, k + 1, Append(out, segments[k]))

RECURSIVE Joined(_, _)
Joined(segments, k) ==
    IF k > Len(segments) THEN <<>>
    ELSE segments[k] \o (IF k < Len(segments) THEN <<"/">> ELSE <<>>)
         \o Joined(segments, k + 1)

\* The archive path an href denotes relative to the package document's
\* directory: the URL-decoded reference resolved against that directory.
Denotes(opf_dir, item_href) ==
    Joined(Resolve(Segments(opf_dir \o <<"/">> \o unquote(item_href), 1, <<>>), 1, <<>>), 1)

\* C15: for a book loaded from a valid container, get_content(item.href)
\* returns the bytes of the archive member the href denotes relative to the
\* package document's directory.
C15_ReadsTheDenotedMember ==
    [][\A h \in Hrefs :
          (/\ last'.op = "get_content" /\ last'.arg.href = h
           /\ HasMember(files.original_path.members, Denotes(book.opf_dir, h)))
          => /\ last'.ret = 1
             /\ CacheGet(content_cache', h)
                  = ReadMember(files.original_path.members, Denotes(book.opf_dir, h))]_vars

\* The rules of the container that an archive breaks
BrokenRules(zip) ==
    LET present == HasMember(zip, MIMETYPE)
        data == ReadMember(zip, MIMETYPE)
    IN  (IF ~present THEN {"mimetype_missing"} ELSE {})
        \cup (IF present /\ (~IsAscii(data) \/ strip(data) # MimetypeBytes)
              THEN {"mimetype_content", "mimetype_encoding"} ELSE {})
        \cup (IF zip = <<>> \/ zip[1].filename # MIMETYPE
              THEN {"mimetype_not_first"} ELSE {})
        \cup (IF present /\ getinfo(zip, MIMETYPE).compress_type # "ZIP_STORED"
              THEN {"mimetype_compressed"} ELSE {})
        \cup (IF ~HasMember(zip, CONTAINER_XML) THEN {"container_missing"} ELSE {})

\* C16: load of an archive that breaks a rule of the container (mimetype
\* present, its trimmed ASCII content, first, stored; container.xml present)
\* fails with InvalidEpubFileError naming a rule broken, and returns no book.
C16_BrokenRuleIsInvalidContainer ==
    [][(/\ last'.op = "load" /\ files.original_path.is_zip
        /\ BrokenRules(files.original_path.members) # {})
       => /\ last'.ret = -1
          /\ last'.arg.error = "InvalidEpubFileError"
          /\ last'.stage \in BrokenRules(files.original_path.members)
          /\ book' = NoBook]_vars

\* A compressed mimetype member in first place was refused for that.
C16_Witness ==
    /\ last.op = "load" /\ last.stage = "mimetype_compressed"
    /\ BrokenRules(files.original_path.members) = {"mimetype_compressed"}
    /\ book = NoBook

\* C17: load fails with FileNotFoundError when the path does not exist and
\* with the not-a-ZIP error when the file is not a ZIP archive; no validation
\* or parsing step has run and no book is returned.
C17_OpenErrors ==
    [][(last'.op = "load" /\ ~files.original_path.is_zip)
       => /\ last'.ret = -1
          /\ book' = NoBook
          /\ IF files.original_path.exists
             THEN last'.arg.error = "InvalidEpubFileError" /\ last'.stage = "not_a_zip"
             ELSE last'.arg.error = "FileNotFoundError" /\ last'.stage = "not_found"]_vars

C17_Witness ==
    /\ last.op = "load" /\ last.stage = "not_a_zip"
    /\ files.original_path = NotAZip /\ book = NoBook

\* C18: a failing load fails with FileNotFound, NotAZipArchive or
\* InvalidContainer, whatever the archive; no other error leaves load.
C18_OnlyThreeErrorKinds ==
    (last.op = "load" /\ last.ret = -1)
    => \/ last.arg.error = "FileNotFoundError" /\ last.stage = "not_found"
       \/ last.arg.error = "InvalidEpubFileError"

\* C19: a successful save leaves is_modified false and the cache empty, and
\* the next get_content(href) returns the bytes of the member at the href's
\* path in the file just written.
C19_SavedFileIsTheNewBaseline ==
    [][/\ (last'.op = "save" /\ last'.ret = 1)
          => (~is_modified' /\ content_cache' = <<>>)
       /\ \A h \in Hrefs :
             (/\ last.op = "save" /\ last.ret = 1
              /\ last'.op = "get_content" /\ last'.arg.href = h
              /\ HasMember(files.original_path.members, full_path(book.opf_dir, h)))
             => /\ last'.ret = 1
                /\ CacheGet(content_cache', h)
                     = ReadMember(files.original_path.members,
                                  full_path(book.opf_dir, h))]_vars

WrittenFromCache(original_zip, cache) ==
    {cache[k].href : k \in 1..Len(write_modified_files(<<>>, original_zip, cache, 1))}

\* C21: the members a successful save writes from the cache are those of the
\* hrefs passed to update_content since the load or the last successful save;
\* an href that was only read is copied from the original archive.
C21_OnlyUpdatedHrefsAreWritten ==
    [][(last'.op = "save" /\ last'.ret = 1)
       => WrittenFromCache(files.original_path.members, content_cache) = updated]_vars

\* C22: update_content(href, b) overwrites the entry of href and sets
\* is_modified; until the next successful save get_content(href) returns b
\* without reading the archive, and what every other href returns is unchanged.
C22_LastUpdateWins ==
    [][/\ last'.op = "update_content"
          => /\ is_modified'
             /\ \A h \in Hrefs :
                   IF h = last'.arg.href
                   THEN CurrentContent(h)' = [ok |-> TRUE, content |-> last'.arg.content]
                   ELSE CurrentContent(h)' = CurrentContent(h)
       /\ \A h \in updated :
             (~(last'.op = "save" /\ last'.ret = 1) /\ h \notin Range(last'.updates))
             => /\ CurrentContent(h)' = CurrentContent(h)
                /\ CacheHas(content_cache', h)
                /\ (last'.op = "get_content" /\ last'.arg.href = h)
                   => (last'.ret = 1 /\ zip_handle' = zip_handle)]_vars

\* A read returned the bytes last passed to update_content for its href, the
\* archive never opened.
C22_Witness ==
    /\ last.op = "get_content" /\ last.ret = 1 /\ nops = 3
    /\ last.arg.href \in updated
    /\ book.manifest = ManifestPlain /\ last.arg.href = <<"ch1", ".xhtml">>
    /\ CurrentContent(last.arg.href).content = Doc2
    /\ ~zip_handle.open

\* C23: every SearchResult of a search has 0 <= match_start < match_end <=
\* length(context) and context[match_start:match_end] = match_text, whatever
\* pattern compiled.
C23_ResultSpansAreNonEmpty ==
    \A k \in 1..Len(results) :
       /\ 0 <= results[k].match_start
       /\ results[k].match_start < results[k].match_end
       /\ results[k].match_end <= Len(results[k].context)
       /\ Slice(results[k].context, results[k].match_start, results[k].match_end)
            = results[k].match_text

\* The place of an item in the manifest
ItemIndex(href) == CHOOSE i \in 1..Len(book.manifest) : book.manifest[i].href = href

\* Result r comes before result s: an earlier item, or the same item and an
\* earlier node, or the same node and a match that starts later and not before
\* the end of the one before it.
ComesBefore(r, s) ==
    \/ ItemIndex(r.item_href) < ItemIndex(s.item_href)
    \/ /\ r.item_href = s.item_href
       /\ \/ r.node_index < s.node_index
          \/ /\ r.node_index = s.node_index
             /\ r.match_start < s.match_start
             /\ r.match_end <= s.match_start

\* C25: the results of a search are in manifest order, then in increasing
\* node_index, then in increasing match_start, and the matches in one node do
\* not overlap.
C25_ResultsAreOrdered ==
    \A k \in 1..(Len(results) - 1) : ComesBefore(results[k], results[k + 1])

\* A search reported two matches in one node of the first document, and
\* matches in both nodes of the second.
C25_Witness ==
    /\ last.op = "search" /\ Len(results) >= 5
    /\ results[1].item_href = book.manifest[1].href
    /\ results[2].item_href = book.manifest[1].href
    /\ results[2].node_index = results[1].node_index
    /\ \E k \in 3..(Len(results) - 1) :
          /\ results[k].item_href = book.manifest[2].href
          /\ results[k + 1].item_href = book.manifest[2].href
          /\ results[k].node_index < results[k + 1].node_index

\* The name of the element that holds text node node_index of an item
ParentName(href, node_index) ==
    LET soup == BeautifulSoup(CurrentContent(href).content, keep_blanks)
    IN  soup[find_all_strings(soup)[node_index + 1]].name

\* C24: no SearchResult of a search lies in a text node inside a style or
\* script element, the nodes that replace_all leaves alone.
C24_SearchSkipsStyleAndScript ==
    [][last'.op = "search"
       => \A k \in 1..Len(results') :
             ParentName(results'[k].item_href, results'[k].node_index)
                 \notin {"style", "script"}]_vars

\* C26: in a save with backup the book file is renamed to the backup path
\* before the temporary archive is renamed onto the book path, and neither
\* rename happens before the temporary archive is written.  Seen where an I/O
\* error stops the save: up to the backup rename both paths are as before, at
\* the final rename the backup is made and the book path not yet filled.
C26_RenamesInOrder ==
    [][last'.op = "save"
       => /\ (last'.ret = -1 /\ last'.stage \in {"open", "write", "backup"})
             => /\ files'.original_path = files.original_path
                /\ files'.backup_path = files.backup_path
          /\ (last'.ret = -1 /\ last'.stage = "rename")
             => IF last'.arg.backup
                THEN /\ files'.backup_path = files.original_path
                     /\ ~files'.original_path.exists
                ELSE /\ files'.original_path = files.original_path
                     /\ files'.backup_path = files.backup_path
          /\ (last'.ret = 1 /\ last'.arg.backup)
             => /\ files'.backup_path = files.original_path
                /\ files'.original_path
                     = File(TempArchive(files.original_path.members, content_cache))]_vars

\* A save with backup was stopped at the final rename: the backup is made.
C26_Witness ==
    /\ last.op = "save" /\ last.ret = -1 /\ last.stage = "rename" /\ last.arg.backup
    /\ files.backup_path.exists /\ ~files.original_path.exists

\* The manifest without the items whose content cannot be fetched
Fetchable == SelectSeq(book.manifest, LAMBDA item : CurrentContent(item.href).ok)

\* C27: in search and replace_all an item whose content cannot be fetched
\* yields nothing and stops nothing: no error reaches the caller, and the
\* results, the count and the contents written are those of the same call on
\* the manifest without that item.
C27_UnfetchableItemIsSkipped ==
    [][(/\ last'.op \in {"search", "replace_all"}
        /\ Compile(last'.arg.query).ok
        /\ Fetchable # book.manifest)
       => /\ last'.ret >= 0
          /\ last'.op = "search"
             => \E r \in {search(CM, files, book.opf_dir, Fetchable, 1,
                                  Compile(last'.arg.query), keep_blanks)} :
                    /\ results' = r.results
                    /\ content_cache' = r.cm.cache
          /\ last'.op = "replace_all"
             => \E r \in {replace_all(CM, files, book.opf_dir, Fetchable, 1,
                                       Compile(last'.arg.query), last'.arg.replace,
                                       keep_blanks)} :
                    /\ last'.ret = r.n
                    /\ last'.updates = r.cm.updates
                    /\ content_cache' = r.cm.cache
                    /\ is_modified' = r.cm.is_modified]_vars

\* A search passed over an item that is missing from the archive and found
\* matches in an item after it.
C27_Witness ==
    /\ last.op = "search" /\ last.ret > 0
    /\ ~CurrentContent(book.manifest[1].href).ok
    /\ results[1].item_href = book.manifest[2].href

\* C28: get_content(href) fails with the content-not-found error when the
\* resolved path is absent from the archive; it then creates no cache entry
\* and leaves is_modified alone, so that the same call fails again.
C28_MissingMemberIsContentNotFound ==
    [][\A h \in Hrefs :
          (/\ last'.op = "get_content" /\ last'.arg.href = h
           /\ ~CacheHas(content_cache, h)
           /\ ~HasMember(zipfile(CM, files).members, full_path(book.opf_dir, h)))
          => /\ last'.ret = 0
             /\ content_cache' = content_cache
             /\ is_modified' = is_modified
             /\ ~CurrentContent(h)'.ok]_vars

\* Two reads of an href whose member is missing have failed one after the other.
C28_Witness ==
    /\ last.op = "get_content" /\ last.ret = 0 /\ nops = 3
    /\ content_cache = <<>> /\ ~is_modified
    /\ book.manifest = ManifestParent

\* C29: get_content reads the member at the URL-decoded href joined to
\* opf_dir with the "." and ".." segments resolved: with opf_dir "OEBPS" the
\* href "../cover.xhtml" reads the member "cover.xhtml".
C29_ResolvedPathIsNormalized ==
    [][\A h \in Hrefs :
          (last'.op = "get_content" /\ last'.arg.href = h /\ ~CacheHas(content_cache, h))
          => /\ full_path(book.opf_dir, h) = Denotes(book.opf_dir, h)
             /\ last'.ret = 1
                <=> HasMember(zipfile(CM, files).members, Denotes(book.opf_dir, h))]_vars

\* C30: search, replace_all and batch_replace_all leave alone every item
\* whose media type does not contain "html": it is not fetched, yields no
\* result and is not passed to update_content.
C30_OnlyHtmlItemsAreTouched ==
    [][last'.op \in {"search", "replace_all", "batch_replace_all"}
       => \A i \in 1..Len(book.manifest) :
             book.manifest[i].media_type \notin {XHTML, "text/html"}
             => \A h \in {book.manifest[i].href} :
                   /\ h \notin Range(last'.updates)
                   /\ CacheHas(content_cache', h) = CacheHas(content_cache, h)
                   /\ CurrentContent(h)' = CurrentContent(h)
                   /\ \A k \in 1..Len(results') : results'[k].item_href # h]_vars

\* A search found matches in the content documents of a book whose stylesheet
\* holds the query too, and did not fetch the stylesheet.
C30_Witness ==
    /\ last.op = "search" /\ last.ret > 0
    /\ book.manifest = ManifestPlain
    /\ ~CacheHas(content_cache, <<"style.css">>)
    /\ CacheHas(content_cache, <<"ch1", ".xhtml">>)

\* The container of a file passes the structural validation and its
\* container.xml names a package document that the archive does not hold.
NamesAbsentOpf(file) ==
    /\ file.is_zip
    /\ validate_epub(file.members)
    /\ get_opf_path(file.members).stage = "none"
    /\ ~HasMember(file.members, get_opf_path(file.members).opf_path)

\* C31: load of a container that passes the structural validation but whose
\* container.xml names a package document absent from the archive raises
\* KeyError and returns no book.
C31_AbsentOpfIsKeyError ==
    [][(last'.op = "load" /\ NamesAbsentOpf(files.original_path))
       => /\ last'.ret = -1
          /\ last'.arg.error = "KeyError"
          /\ book' = NoBook]_vars

\* The load of the archive with mimetype and container.xml alone has failed
\* at the read of the package document.
C31_Witness ==
    /\ last.op = "load" /\ last.ret = -1 /\ last.stage = "opf_missing"
    /\ files.original_path = File(<<Stored, Container>>)
    /\ NamesAbsentOpf(files.original_path)
    /\ book = NoBook

\* C32: the loader produces one SpineItem per itemref in document order,
\* linear when the linear attribute is absent or equals "yes" and not linear
\* for every other value of the attribute.
C32_SpineItemPerItemref ==
    [][\A spine \in Spines :
          (last'.op = "load" /\ files.original_path = SpineFiles[spine])
          => LET itemrefs == SelectSeq(spine, LAMBDA c : c.itemref)
             IN  /\ last'.ret = 1
                 /\ book'.spine =
                       [i \in 1..Len(itemrefs) |->
                          SpineItem(itemrefs[i].idref,
                                    ~itemrefs[i].has_linear
                                    \/ itemrefs[i].linear = "yes")]]_vars

\* A spine of an itemref with linear="true" before one without the attribute
\* was loaded: the first is not linear, the second is.
C32_Witness ==
    /\ last.op = "load" /\ last.ret = 1
    /\ files.original_path = SpineFiles[<<SpineChild(TRUE, "ch1", TRUE, "true"),
                                          SpineChild(TRUE, "ch2", FALSE, "yes")>>]
    /\ book.spine = <<SpineItem("ch1", FALSE), SpineItem("ch2", TRUE)>>

\* C33: all_metadata[tag] is the sequence of the texts of the metadata
\* element's children with that local name and non-empty text, in encounter
\* order and with duplicates kept; a tag without such a child is no key.
C33_AllMetadataHoldsEveryText ==
    [][\A meta \in Metas :
          (last'.op = "load" /\ files.original_path = MetaFiles[meta])
          => /\ last'.ret = 1
             /\ \A tag \in {"title", "creator"} :
                   LET with_text == SelectSeq(meta, LAMBDA c : c.local = tag /\ c.text # <<>>)
                       keys == {i \in 1..Len(book'.all_metadata) :
                                   book'.all_metadata[i].tag = tag}
                   IN  IF with_text = <<>> THEN keys = {}
                       ELSE /\ Cardinality(keys) = 1
                            /\ \A i \in keys :
                                  book'.all_metadata[i].values
                                    = [j \in 1..Len(with_text) |-> with_text[j].text]
             /\ \A i \in 1..Len(book'.all_metadata) :
                   book'.all_metadata[i].tag \in {"title", "creator"}]_vars

\* Two title elements with the same text, in two namespaces, were loaded:
\* the text is kept twice under the one key.
C33_Witness ==
    /\ last.op = "load" /\ last.ret = 1
    /\ files.original_path = MetaFiles[<<MetaChild("dc", "title", <<"a">>),
                                         MetaChild("opf", "title", <<"a">>)>>]
    /\ book.all_metadata = <<[tag |-> "title", values |-> <<(<<"a">>), (<<"a">>)>>]>>

\* The archive that a successful save called now writes to the book path
SavedNext == TempArchive(files.original_path.members, content_cache)

\* C34: edits are cumulative across saves on one open book.  After a
\* successful save and a further edit, the save that follows leaves every
\* document the further edit did not write as the first save wrote it: the
\* change of the first edit is still in the file.
C34_EditsAreCumulative ==
    [][(/\ last.op = "save" /\ last.ret = 1
        /\ last'.op \in {"update_content", "replace_all", "batch_replace_all"}
        /\ is_modified')
       => \A saved \in {SavedNext'} :
             \A h \in Hrefs \ updated' :
                LET path == full_path(book.opf_dir, h)
                IN  HasMember(files.original_path.members, path)
                    => /\ HasMember(saved, path)
                       /\ ReadMember(saved, path)
                            = ReadMember(files.original_path.members, path)]_vars

\* C35: in every state of a loaded book is_modified is true exactly when
\* update_content has been called since the load or since the last successful
\* save, and then the cache holds an entry that update_content wrote.
C35_ModifiedIffUpdated ==
    /\ is_modified <=> updated # {}
    /\ is_modified => \E h \in updated : CacheHas(content_cache, h)

\* A failed save after an edit: the flag and the edit are still there.
C35_Witness ==
    /\ last.op = "save" /\ last.ret = -1
    /\ is_modified /\ updated # {}
    /\ \A h \in updated : CacheHas(content_cache, h)

\* C36: a failed save leaves is_modified true and the cache as it was, and a
\* later save on the same book that meets no I/O error succeeds and writes
\* the archive the failed save was to write.
C36_FailedSaveCanBeRetried ==
    [][(last'.op = "save" /\ last'.ret = -1 /\ files.original_path.exists)
       => /\ is_modified'
          /\ content_cache' = content_cache
          /\ \A backup \in BOOLEAN :
                /\ FailsAt(files', backup, "none") = "none"
                /\ SaveFiles(files', content_cache', backup, "none").original_path
                     = SaveFiles(files, content_cache, backup, "none").original_path]_vars

\* The member paths of an archive, in archive order
namelist(zip) == [i \in 1..Len(zip) |-> zip[i].filename]

\* C37: the archive of a successful save holds every path of the original
\* archive exactly once and no path twice; a path that the original archive
\* does not hold is an href that was passed to update_content and denotes no
\* original member.
C37_PathsOnceEach ==
    [][(last'.op = "save" /\ last'.ret = 1)
       => LET before == namelist(files.original_path.members)
              after == namelist(files'.original_path.members)
          IN  /\ \A i \in 1..Len(before) : Occurrences(after, before[i]) = 1
              /\ \A i \in 1..Len(after) : Occurrences(after, after[i]) = 1
              /\ \A i \in 1..Len(after) :
                    Occurrences(before, after[i]) = 0
                    => /\ after[i] \in updated
                       /\ ~HasMember(files.original_path.members,
                                     full_path(book.opf_dir, after[i]))]_vars

\* C38: search is read-only.  Consuming its results leaves is_modified, the
\* files and the bytes get_content returns for every href as they were, and a
\* save after a search on an unedited book changes no file.
C38_SearchIsReadOnly ==
    [][/\ last'.op = "search"
          => /\ is_modified' = is_modified
             /\ files' = files
             /\ \A h \in Hrefs : CurrentContent(h)' = CurrentContent(h)
       /\ (last.op = "search" /\ ~is_modified /\ last'.op = "save")
          => /\ files' = files
             /\ is_modified' = is_modified]_vars

\* A search found matches and filled the cache, and the save that followed
\* had nothing to write.
C38_Witness ==
    /\ last.op = "save" /\ last.stage = "unmodified"
    /\ results # <<>> /\ content_cache # <<>>
    /\ ~is_modified /\ nops = 2

\* C39: search and replace_all agree.  On the same book content, with the
\* same query and flags, replace_all returns the number of SearchResults
\* that search yields.
C39_ReplaceAllCountsSearchResults ==
    [][(last'.op = "replace_all" /\ last'.ret >= 0)
       => \A found \in {search(CM, files, book.opf_dir, book.manifest, 1,
                                Compile(last'.arg.query), keep_blanks)} :
             last'.ret = Len(found.results)]_vars

\* C40: after save has returned or raised, no file is at the temporary path,
\* whichever step succeeded or failed.
C40_NoTemporaryFileRemains ==
    [][last'.op = "save" => ~files'.temp_path.exists]_vars

\* The temporary archive was built and the final rename failed: the save
\* raised and the temporary file is gone.
C40_Witness ==
    /\ last.op = "save" /\ last.ret = -1 /\ last.stage = "rename"
    /\ ~last.arg.backup
    /\ ~files.temp_path.exists /\ files.original_path.exists

====
